---- MODULE Spec2Model ----
(***************************************************************************)
(* A model of spc2midi-tsuu (src/src/lib.rs and its estimators): the App   *)
(* state machine driven by iced messages, the loops that drive the SPC700  *)
(* emulator under the "accumulate cycles, tick every 16" protocol, the      *)
(* locking of the emulator instances between the audio callback and the UI *)
(* thread, and the source analysis.                                        *)
(*                                                                         *)
(* The module holds several specifications over one set of variables; each *)
(* specification drives its own group of variables and leaves the others   *)
(* at their parked values.                                                 *)
(***************************************************************************)
EXTENDS Integers, Sequences, FiniteSets, TLC

\* ------------------------------------------------------------------------
\* Program constants
\* ------------------------------------------------------------------------

\* const CLOCK_TICK_CYCLE_64KHZ: u32 = 16
CLOCK_TICK_CYCLE_64KHZ == 16

\* ------------------------------------------------------------------------
\* Bounds of the model
\* ------------------------------------------------------------------------

\* most cycles one emulator instance is stepped through
MaxCycles == 36
\* most 64 kHz ticks an analysis, tempo or export loop is asked to run
MaxLoopTicks == 2
\* SPC files that can be opened
NumFiles == 1
\* most audio callbacks one live instance is driven through
MaxSteps == 1
\* most 64 kHz ticks of one scripted playback session
MaxVoiceTicks == 4
\* longest play time, in seconds, a file header states
MaxDuration == 4
\* cap of the played-sample and MIDI-byte counters
MaxCount == 1
\* edit messages handled in one behaviour
MaxEdits == 2
\* longest power spectrum of which every content is tried
MaxSpecLen == 3
\* length of the power spectra with one peak
ProbeLen == 8
\* MIDI messages in the exported track
MaxSmfMessages == 3
\* messages handled in one behaviour of SpecSoundOff, and playback messages
\* sent in it
MaxStops == 3
\* ticks that yield a batch of messages, per path, in one behaviour of
\* SpecForward
MaxBatches == 2
\* previews in one behaviour of SpecPreview
MaxPreviews == 2
\* frames of BUFFER_SIZE (2048 in play_start) and of the resampling channel
\* in SpecCallback
BufferFrames == 4
ChannelFrames == 5

\* The cycle costs execute_step() can return (a sample of them).  execute_step
\* belongs to the spc700 crate; SPC700 instructions cost between 2 and 12
\* cycles and the specification's own example uses steps of 1 and of 16 cycles.
StepCycles == {1, 5, 12, 16}

\* ------------------------------------------------------------------------
\* State
\* ------------------------------------------------------------------------

VARIABLES
    \* --- the tick protocol (SpecTick) ---
    loop_mode,          \* which loop of lib.rs runs: "idle","analyze","bpm","smf"
    cycle_count,        \* the running loop's local `cycle_count`
    tick64khz_count,    \* the running loop's local tick counter
    loop_ticks,         \* the number of ticks the running loop was asked for
    spc_clockup_factor, \* config.spc_clockup_factor read by create_smf
    smf_pc,             \* create_smf: "step" inside the inner while, "tick" after it
    work_spc,           \* the loop's own emulator instance: [cycles, ticks]
    play_stream,        \* TRUE while the playback closure of play_start exists
    play_cycle_count,   \* the `cycle_count` captured by the playback closure
    live_spc,           \* App.pcm_spc, the live instance: [cycles, ticks]
    \* --- the emulator locks during playback (SpecLock) ---
    lock_holder,        \* who holds each Mutex: "free", "audio" or "ui"
    thread_prog,        \* per thread, the lock operations it still has to do
    ui_handling,        \* the message the UI thread is handling, "" when none
    \* --- the App (Spec) ---
    spc_file,           \* App.spc_file: NoFile or the loaded snapshot
    stream,             \* App.stream: "none", or the closure it runs: "main", "srn"
    stream_is_playing,  \* App.stream_is_playing
    closure_spc,        \* the instances the playback closure holds: AppInstances when they
                        \* are the App's pcm_spc/midi_spc, Detached(..) when the App
                        \* has replaced its own since
    pcm_spc,            \* App.pcm_spc: NoSPC or the PCM emulator instance
    midi_spc,           \* App.midi_spc: NoSPC or the MIDI emulator instance
    stream_played_samples, \* App.stream_played_samples
    midi_output_bytes,  \* App.midi_output_bytes
    stream_device,      \* App.stream_device and App.stream_config are Some
    midi_out_conn,      \* App.midi_out_conn is Some
    pcm_spc_mute,       \* App.pcm_spc_mute
    midi_spc_mute,      \* App.midi_spc_mute
    channel_mute_flags, \* App.channel_mute_flags (u8 bit mask)
    preview_loop,       \* App.preview_loop
    source_infos,       \* App.source_infos: the source numbers analysed
    source_parameter,   \* App.source_parameter: source number -> record
    pending_update,     \* ReceivedSourceParameterUpdate messages on their way
    last_msg,           \* the message handled last and how it ended
    before_start,       \* the instances and the stream as a start attempt found them
    \* --- one voice of the MIDI instance and the MIDI sink (SpecVoice) ---
    midi_sink,          \* the note messages of the voice sent on midi_out_conn
    key_script,         \* the key events the emulated program has produced
    keyons_taken,       \* key-ons that found the voice Idle and un-muted
    voice_ends,         \* times the voice has left Sounding
    tick_no,            \* 64 kHz ticks of the MIDI instance so far
    \* --- tempo estimation (SpecBpm) ---
    bpm_file,           \* the loaded file as tempo estimation sees it
    beats_per_minute,   \* midi_output_configure.beats_per_minute, in eighths of a beat
    bpm_panicked,       \* the process has aborted in estimate_bpm
    \* --- source analysis in two independent runs of the program (SpecAnalyze) ---
    build,              \* the build profile: "debug" checks overflow, "release" wraps
    run,                \* per run: the App fields analyze_sources reads and writes
    \* --- the edit messages of the parameter and configuration views (SpecEdit) ---
    edit_params,        \* App.source_parameter: source number -> SourceParameter
    edit_config,        \* App.midi_output_configure
    edit_queue,         \* ReceivedSourceParameterUpdate messages the tasks will deliver
    edit_regs,          \* the virtual registers of App.midi_spc the applier writes
    edit_last,          \* the message handled last, its arguments and what it found
    edit_count,         \* messages handled so far
    \* --- drum and note estimation of one source (SpecEstimate) ---
    est_info,           \* the SourceInformation given to estimate_drum_and_note
    est_drum,           \* what detect_drum returned: "none" before it has run
    est_note,           \* what center_note_estimation returned, or that it panicked
    \* --- the export of the track, create_smf (SpecExport) ---
    exp_config,         \* the MIDIOutputConfigure create_smf reads
    exp_state,          \* "idle", "run" inside the while loop, "done" after it
    exp_smf,            \* the SMF under construction: division and track events
    exp_elapsed,        \* total_elapsed_time_nanosec, in 64 kHz ticks of 15625 ns
    exp_total_ticks,    \* total_ticks
    \* --- stop, mute and the MIDI output connection (SpecSoundOff) ---
    aso_app,            \* the App that runs: "lib" (lib.rs) or "main" (main.rs)
    aso_conn,           \* App.midi_out_conn is Some
    aso_stream,         \* App.stream is Some
    aso_playing,        \* App.stream_is_playing
    aso_sink,           \* the messages sent on the MIDI output connection
    aso_last,           \* the message handled last and where the sink stood before
    aso_count,          \* messages handled so far
    \* --- the way of the MIDI messages (SpecForward) ---
    fw_produced,        \* the batches clock_tick_64k_hz of the live MIDI instance returned
    fw_port,            \* the byte strings sent on the MIDI output connection
    fw_exported,        \* the batches clock_tick_64k_hz returned inside create_smf
    fw_track,           \* the data of the MIDI events of the exported track
    fw_counter,         \* App.midi_output_bytes
    fw_local,           \* midi_bytes of the data callback that runs, NoCallback if none
    fw_reset_at,        \* how many byte strings the port had got at the last reset
    \* --- the MIDI preview of a source (SpecPreview) ---
    pv_params,          \* App.source_parameter (program as u8, noteon_velocity, center_note)
    pv_conn,            \* App.midi_out_conn is Some
    pv_sink,            \* the messages sent on the MIDI output connection
    pv_frame,           \* the locals of preview_midi_sound while it sleeps, NoPreview else
    pv_log,             \* per preview: the source's record when it began, the sink's length then
    \* --- the length of the analysis loops (SpecDuration) ---
    dur_build,          \* "debug" (overflow checks on) or "release" (they are off)
    dur_header,         \* header.duration of the loaded file in seconds, NoHeader before one is loaded
    dur_msec,           \* midi_output_configure.output_duration_msec, a u64 in 16-bit limbs
    dur_loop,           \* the analysis run last: who ran it, its duration, where its loop ended
    dur_factor,         \* midi_output_configure.spc_clockup_factor, a u32 in 16-bit limbs
    dur_smf,            \* the export run last: its inputs, its cycle threshold, the ticks it fired
    \* --- the emulation loop of the data callback (SpecCallback) ---
    cb_pc,              \* "idle" between callbacks, "loop" inside one
    cb_locked,          \* the callback holds the guards of pcm_spc, midi_spc and midi_out_conn
    cb_free,            \* prod.available_frames(): the free frames of the resampling channel
    cb_nsamples,        \* the local nsamples of the callback
    cb_cycle_count,     \* cycle_count captured by the closure
    cb_phase,           \* 64 kHz ticks of the PCM instance since its last sample
    cb_start,           \* nsamples as the callback read it when it began
    cb_steps            \* execute_step() calls on the PCM instance in this callback

tickVars == <<loop_mode, cycle_count, tick64khz_count, loop_ticks,
              spc_clockup_factor, smf_pc, work_spc, play_stream,
              play_cycle_count, live_spc>>

lockVars == <<lock_holder, thread_prog, ui_handling>>

appVars == <<spc_file, stream, stream_is_playing, closure_spc, pcm_spc, midi_spc,
             stream_played_samples, midi_output_bytes, stream_device,
             midi_out_conn, pcm_spc_mute, midi_spc_mute, channel_mute_flags,
             preview_loop, source_infos, source_parameter, pending_update,
             last_msg, before_start>>

voiceVars == <<midi_sink, key_script, keyons_taken, voice_ends, tick_no>>

bpmVars == <<bpm_file, beats_per_minute, bpm_panicked>>

analyzeVars == <<build, run>>
editVars == <<edit_params, edit_config, edit_queue, edit_regs, edit_last, edit_count>>
estVars == <<est_info, est_drum, est_note>>
expVars == <<exp_config, exp_state, exp_smf, exp_elapsed, exp_total_ticks>>
asoVars == <<aso_app, aso_conn, aso_stream, aso_playing, aso_sink, aso_last, aso_count>>

fwVars == <<fw_produced, fw_port, fw_exported, fw_track, fw_counter, fw_local, fw_reset_at>>

pvVars == <<pv_params, pv_conn, pv_sink, pv_frame, pv_log>>

durVars == <<dur_build, dur_header, dur_msec, dur_loop, dur_factor, dur_smf>>

cbVars == <<cb_pc, cb_locked, cb_free, cb_nsamples, cb_cycle_count, cb_phase, cb_start, cb_steps>>

vars == <<tickVars, lockVars, appVars, voiceVars, bpmVars, analyzeVars, editVars, estVars, expVars, asoVars, fwVars, pvVars, durVars, cbVars>>

\* ------------------------------------------------------------------------
\* The emulator instance as the tick protocol sees it
\* ------------------------------------------------------------------------

\* SPC::new: nothing executed, nothing ticked
NewSPC == [cycles |-> 0, ticks |-> 0]

\* spc.execute_step() returning c cycles
ExecuteStep(spc, c) == [spc EXCEPT !.cycles = @ + c]

\* spc.clock_tick_64k_hz()
ClockTick(spc) == [spc EXCEPT !.ticks = @ + 1]

\* ------------------------------------------------------------------------
\* SpecLock: the Mutexes around pcm_spc, midi_spc and midi_out_conn while the
\* playback stream runs.  A thread is the sequence of lock operations its
\* code performs; a guard taken by `lock().unwrap()` is released where its
\* binding goes out of scope.
\* ------------------------------------------------------------------------

Locks == {"pcm_spc", "midi_spc", "midi_out_conn"}
Threads == {"audio", "ui"}

Lock(l) == [op |-> "lock", lock |-> l]
Unlock(l) == [op |-> "unlock", lock |-> l]

\* thread::sleep: the thread is off the processor for the whole duration
Sleep == [op |-> "sleep", lock |-> ""]

\* stop_midi_channel_sound / stop_midi_all_sound: the connection is locked
\* for the send and released on return
StopMidiSound == <<Lock("midi_out_conn"), Unlock("midi_out_conn")>>

RECURSIVE Repeat(_, _)
Repeat(seq, n) == IF n = 0 THEN <<>> ELSE seq \o Repeat(seq, n - 1)

\* the audio callback: pcm_spc, then midi_spc, then midi_out_conn, all held
\* to the end of the closure
AudioCallbackProg ==
    <<Lock("pcm_spc"), Lock("midi_spc"), Lock("midi_out_conn"),
      Unlock("midi_out_conn"), Unlock("midi_spc"), Unlock("pcm_spc")>>

\* Message::MuteChannel(ch, flag): midi_spc, then pcm_spc, both guards alive
\* until the end of the `if let` block, the MIDI channel silenced inside it
MuteChannelProg(flag) ==
    <<Lock("midi_spc"), Lock("pcm_spc")>>
    \o (IF flag THEN StopMidiSound ELSE <<>>)
    \o <<Unlock("pcm_spc"), Unlock("midi_spc")>>

\* Message::SoloChannel(ch): as MuteChannel, silencing the 7 other channels
SoloChannelProg ==
    <<Lock("midi_spc"), Lock("pcm_spc")>>
    \o Repeat(StopMidiSound, 7)
    \o <<Unlock("pcm_spc"), Unlock("midi_spc")>>

\* Message::SPCMuteFlagToggled
SPCMuteFlagToggledProg == <<Lock("pcm_spc"), Unlock("pcm_spc")>>

\* Message::MIDIMuteFlagToggled(flag): the guard ends with the `if let`
\* block, stop_midi_all_sound runs after it
MIDIMuteFlagToggledProg(flag) ==
    <<Lock("midi_spc"), Unlock("midi_spc")>>
    \o (IF flag THEN StopMidiSound ELSE <<>>)

\* Message::Tick: read_playback_status under the midi_spc lock
TickProg == <<Lock("midi_spc"), Unlock("midi_spc")>>

\* Message::ReceivedSourceParameterUpdate -> App::apply_source_parameter
ApplySourceParameterProg == <<Lock("midi_spc"), Unlock("midi_spc")>>

\* Message::ReceivedMIDIPreviewRequest -> App::preview_midi_sound with a
\* connected port: conn_out is bound before the note-on and lives to the end
\* of the function, MIDI_PREVIEW_DURATION_MSEC of sleep included
PreviewMidiSoundProg == <<Lock("midi_out_conn"), Sleep, Unlock("midi_out_conn")>>

LockParked ==
    /\ lock_holder = [l \in Locks |-> "free"]
    /\ thread_prog = [t \in Threads |-> <<>>]
    /\ ui_handling = ""

\* cpal calls the data callback
AudioCallbackStart ==
    /\ thread_prog["audio"] = <<>>
    /\ thread_prog' = [thread_prog EXCEPT !["audio"] = AudioCallbackProg]
    /\ UNCHANGED <<lock_holder, ui_handling>>

\* iced delivers a message to App::update
UiBegin(msg, prog) ==
    /\ thread_prog["ui"] = <<>>
    /\ thread_prog' = [thread_prog EXCEPT !["ui"] = prog]
    /\ ui_handling' = msg
    /\ UNCHANGED lock_holder

UiMuteChannel(flag) == UiBegin("MuteChannel", MuteChannelProg(flag))
UiSoloChannel == UiBegin("SoloChannel", SoloChannelProg)
UiSPCMuteFlagToggled == UiBegin("SPCMuteFlagToggled", SPCMuteFlagToggledProg)
UiMIDIMuteFlagToggled(flag) == UiBegin("MIDIMuteFlagToggled", MIDIMuteFlagToggledProg(flag))
UiTick == UiBegin("Tick", TickProg)
UiSourceParameterUpdate == UiBegin("ReceivedSourceParameterUpdate", ApplySourceParameterProg)
UiMIDIPreviewRequest == UiBegin("ReceivedMIDIPreviewRequest", PreviewMidiSoundProg)

\* Mutex::lock / guard drop: thread t performs its next lock operation; a
\* lock() on a held Mutex blocks; a sleep ends by itself
ThreadStep(t) ==
    /\ thread_prog[t] # <<>>
    /\ LET o == Head(thread_prog[t])
       IN  /\ CASE o.op = "lock" ->
                     /\ lock_holder[o.lock] = "free"
                     /\ lock_holder' = [lock_holder EXCEPT ![o.lock] = t]
                [] o.op = "unlock" ->
                     lock_holder' = [lock_holder EXCEPT ![o.lock] = "free"]
                [] OTHER -> UNCHANGED lock_holder
           /\ thread_prog' = [thread_prog EXCEPT ![t] = Tail(@)]
           /\ ui_handling' = IF t = "ui" /\ Len(thread_prog[t]) = 1 THEN "" ELSE ui_handling

AudioStep == ThreadStep("audio")
UiStep == ThreadStep("ui")

\* ------------------------------------------------------------------------
\* SpecTick: the loops that drive an emulator instance
\* ------------------------------------------------------------------------

TickParked ==
    /\ loop_mode = "idle"
    /\ cycle_count = 0
    /\ tick64khz_count = 0
    /\ loop_ticks = 0
    /\ spc_clockup_factor = 1
    /\ smf_pc = "step"
    /\ work_spc = NewSPC
    /\ play_stream = FALSE
    /\ play_cycle_count = 0
    /\ live_spc = NewSPC

\* One iteration of the `if cycle_count >= 16 { tick; cycle_count -= 16 }`
\* protocol shared by analyze_sources, bpm_estimation and the audio callback:
\* the accumulator and the instance after one execute_step of c cycles.
AccumulateAndTick(cc, spc, c) ==
    LET stepped == ExecuteStep(spc, c)
        acc == cc + c
    IN  IF acc >= CLOCK_TICK_CYCLE_64KHZ
        THEN [cc |-> acc - CLOCK_TICK_CYCLE_64KHZ, spc |-> ClockTick(stepped), ticked |-> TRUE]
        ELSE [cc |-> acc, spc |-> stepped, ticked |-> FALSE]

\* analyze_sources if it ran on the instance the App holds
AnalyzeStartOnLive(n) ==
    /\ loop_mode = "idle"
    /\ loop_mode' = "analyze"
    /\ loop_ticks' = n
    /\ cycle_count' = 0
    /\ tick64khz_count' = 0
    /\ work_spc' = NewSPC
    /\ live_spc' = NewSPC
    /\ UNCHANGED <<spc_clockup_factor, smf_pc, play_stream, play_cycle_count>>

\* analyze_sources, lines 1042-1055: a new instance, counters at 0
AnalyzeStart(n) ==
    /\ loop_mode = "idle"
    /\ loop_mode' = "analyze"
    /\ loop_ticks' = n
    /\ cycle_count' = 0
    /\ tick64khz_count' = 0
    /\ work_spc' = NewSPC
    /\ UNCHANGED <<spc_clockup_factor, smf_pc, play_stream, play_cycle_count, live_spc>>

\* bpm_estimation, lines 993-1000
BpmStartState(n) ==
    /\ loop_mode' = "bpm"
    /\ loop_ticks' = n
    /\ cycle_count' = 0
    /\ tick64khz_count' = 0
    /\ work_spc' = NewSPC

\* analyze_sources, lines 1056-1084: one iteration of the while loop; when the
\* loop ends the function goes on to bpm_estimation with the same duration
AnalyzeIter(c) ==
    /\ loop_mode = "analyze"
    /\ IF tick64khz_count < loop_ticks
       THEN /\ work_spc.cycles + c <= MaxCycles
            /\ LET r == AccumulateAndTick(cycle_count, work_spc, c)
               IN  /\ cycle_count' = r.cc
                   /\ work_spc' = r.spc
                   /\ tick64khz_count' = IF r.ticked THEN tick64khz_count + 1 ELSE tick64khz_count
            /\ UNCHANGED <<loop_mode, loop_ticks>>
       ELSE BpmStartState(loop_ticks)
    /\ UNCHANGED <<spc_clockup_factor, smf_pc, play_stream, play_cycle_count, live_spc>>

\* the function that ran the loop returns: its locals and its instance are gone
LoopReturns ==
    /\ loop_mode' = "idle"
    /\ loop_ticks' = 0
    /\ cycle_count' = 0
    /\ tick64khz_count' = 0
    /\ work_spc' = NewSPC

\* Message::ReceivedBpmAnalyzeRequest -> bpm_estimation
BpmStart(n) ==
    /\ loop_mode = "idle"
    /\ BpmStartState(n)
    /\ UNCHANGED <<spc_clockup_factor, smf_pc, play_stream, play_cycle_count, live_spc>>

\* bpm_estimation, lines 1001-1027: one iteration of the while loop
BpmIter(c) ==
    /\ loop_mode = "bpm"
    /\ IF tick64khz_count < loop_ticks
       THEN /\ work_spc.cycles + c <= MaxCycles
            /\ LET r == AccumulateAndTick(cycle_count, work_spc, c)
               IN  /\ cycle_count' = r.cc
                   /\ work_spc' = r.spc
                   /\ tick64khz_count' = IF r.ticked THEN tick64khz_count + 1 ELSE tick64khz_count
            /\ UNCHANGED <<loop_mode, loop_ticks>>
       ELSE LoopReturns
    /\ UNCHANGED <<spc_clockup_factor, smf_pc, play_stream, play_cycle_count, live_spc>>

\* Message::MIDIOutputSPC700ClockUpFactorChanged
ClockUpFactorChanged(f) ==
    /\ loop_mode = "idle"
    /\ spc_clockup_factor' = f
    /\ UNCHANGED <<loop_mode, cycle_count, tick64khz_count, loop_ticks, smf_pc,
                   work_spc, play_stream, play_cycle_count, live_spc>>

\* create_smf, lines 1155-1179: a new instance, counters at 0
SmfStart(n) ==
    /\ loop_mode = "idle"
    /\ loop_mode' = "smf"
    /\ loop_ticks' = n
    /\ cycle_count' = 0
    /\ tick64khz_count' = 0
    /\ work_spc' = NewSPC
    /\ smf_pc' = "step"
    /\ UNCHANGED <<spc_clockup_factor, play_stream, play_cycle_count, live_spc>>

\* create_smf, lines 1182-1184: the inner `while cycle_count < spc_64k_hz_cycle`
SmfStep(c) ==
    /\ loop_mode = "smf"
    /\ tick64khz_count < loop_ticks
    /\ cycle_count < spc_clockup_factor * CLOCK_TICK_CYCLE_64KHZ
    /\ work_spc.cycles + c <= MaxCycles
    /\ cycle_count' = cycle_count + c
    /\ work_spc' = ExecuteStep(work_spc, c)
    /\ smf_pc' = "step"
    /\ UNCHANGED <<loop_mode, loop_ticks, tick64khz_count, spc_clockup_factor,
                   play_stream, play_cycle_count, live_spc>>

\* create_smf, lines 1185-1204: the inner loop has ended; subtract and tick
SmfTick ==
    /\ loop_mode = "smf"
    /\ tick64khz_count < loop_ticks
    /\ cycle_count >= spc_clockup_factor * CLOCK_TICK_CYCLE_64KHZ
    /\ cycle_count' = cycle_count - spc_clockup_factor * CLOCK_TICK_CYCLE_64KHZ
    /\ work_spc' = ClockTick(work_spc)
    /\ tick64khz_count' = tick64khz_count + 1
    /\ smf_pc' = "tick"
    /\ UNCHANGED <<loop_mode, loop_ticks, spc_clockup_factor,
                   play_stream, play_cycle_count, live_spc>>

\* create_smf, line 1207: the outer loop has ended
SmfEnd ==
    /\ loop_mode = "smf"
    /\ tick64khz_count >= loop_ticks
    /\ LoopReturns
    /\ smf_pc' = "step"
    /\ UNCHANGED <<spc_clockup_factor, play_stream, play_cycle_count, live_spc>>

\* play_start, lines 1285-1357: the closure captures a new `cycle_count = 0`
\* and clones of the App's instances, which keep their state
PlayStart ==
    /\ loop_mode = "idle"
    /\ ~play_stream
    /\ play_stream' = TRUE
    /\ play_cycle_count' = 0
    /\ UNCHANGED <<loop_mode, cycle_count, tick64khz_count, loop_ticks,
                   spc_clockup_factor, smf_pc, work_spc, live_spc>>

\* the audio callback, lines 1300-1323: one iteration of its while loop
PlayIter(c) ==
    /\ loop_mode = "idle"
    /\ play_stream
    /\ live_spc.cycles + c <= MaxCycles
    /\ LET r == AccumulateAndTick(play_cycle_count, live_spc, c)
       IN  /\ play_cycle_count' = r.cc
           /\ live_spc' = r.spc
    /\ UNCHANGED <<loop_mode, cycle_count, tick64khz_count, loop_ticks,
                   spc_clockup_factor, smf_pc, work_spc, play_stream>>

\* Message::ReceivedPlayStartRequest while playing -> stream_play_stop,
\* lines 1488-1496: the stream and its closure are dropped (its
\* `cycle_count` with it), the instances stay
PlayPause ==
    /\ loop_mode = "idle"
    /\ play_stream
    /\ play_stream' = FALSE
    /\ play_cycle_count' = 0
    /\ UNCHANGED <<loop_mode, cycle_count, tick64khz_count, loop_ticks,
                   spc_clockup_factor, smf_pc, work_spc, live_spc>>

\* Message::ReceivedPlayStopRequest, lines 499-520: the stream is dropped and
\* the instances are constructed anew
PlayStop ==
    /\ loop_mode = "idle"
    /\ play_stream' = FALSE
    /\ play_cycle_count' = 0
    /\ live_spc' = NewSPC
    /\ UNCHANGED <<loop_mode, cycle_count, tick64khz_count, loop_ticks,
                   spc_clockup_factor, smf_pc, work_spc>>

\* ------------------------------------------------------------------------
\* Spec: the App, its playback stream and its two live emulator instances
\* ------------------------------------------------------------------------

Files == 1..NumFiles

\* Option::None for App.spc_file and for App.pcm_spc / App.midi_spc
NoFile == 0
NoSPC ==
    [snapshot |-> NoFile, steps |-> 0, channel_mute |-> 0, srn |-> <<>>,
     key |-> "none", voice |-> "Idle"]

\* the source numbers analyze_sources discovers in a file (file f plays the
\* sources 0..f-1)
SourcesOf(f) == 0..(f - 1)

\* the voices the main window offers to mute or solo (a sample of 0..7)
MuteChannels == {0}

RECURSIVE Pow2(_)
Pow2(n) == IF n = 0 THEN 1 ELSE 2 * Pow2(n - 1)

\* (flags >> ch) & 1 != 0
HasBit(flags, ch) == (flags \div Pow2(ch)) % 2 = 1
\* flags | (1 << ch)
SetBit(flags, ch) == IF HasBit(flags, ch) THEN flags ELSE flags + Pow2(ch)
\* flags & !(1 << ch)
ClearBit(flags, ch) == IF HasBit(flags, ch) THEN flags - Pow2(ch) ELSE flags
\* !(1 << ch) as u8
NotBit(ch) == 255 - Pow2(ch)

\* SPC::new(&spc_file.header.spc_register, &spc_file.ram, &spc_file.dsp_register):
\* nothing executed, the channel mute register and the per-source registers
\* of the MIDI DSP as constructed, no key event pending, the voice Idle
FreshSPC(f) ==
    [snapshot |-> f, steps |-> 0, channel_mute |-> 0, srn |-> <<>>,
     key |-> "none", voice |-> "Idle"]

\* spc.dsp.write_register(_, DSP_ADDRESS_CHANNEL_MUTE, value)
WriteChannelMute(spc, value) == [spc EXCEPT !.channel_mute = value]

\* the default SourceParameter analyze_sources stores (the fields the
\* playback path reads here)
DefaultParameter == [mute |-> FALSE]

\* apply_source_parameter without the mute bit of lines 1575-1577
ApplyParameterMapNoMute(spc, params) ==
    [spc EXCEPT !.srn = [k \in (DOMAIN @) \cup (DOMAIN params) |->
                            IF k \in DOMAIN params
                            THEN [params[k] EXCEPT !.mute = FALSE] ELSE @[k]]]

\* fn apply_source_parameter: every source of the map is targeted and its
\* registers written; registers of other sources keep their value
ApplyParameterMap(spc, params) ==
    [spc EXCEPT !.srn = [k \in (DOMAIN @) \cup (DOMAIN params) |->
                            IF k \in DOMAIN params THEN params[k] ELSE @[k]]]

\* App::apply_source_parameter: only when the MIDI instance exists
ApplySourceParameter(midi, params) ==
    IF midi = NoSPC THEN midi ELSE ApplyParameterMap(midi, params)

\* play_start, lines 1258-1275: the mute registers of both instances
PlayStartMuteWrites(spc, mute, flags) ==
    WriteChannelMute(spc, IF mute THEN 255 ELSE flags)

\* what the stream's closure holds: the Arcs cloned in play_start (lines
\* 1229-1235) point to the App's instances until the App replaces its own;
\* from then on the closure's instances are apart, with the channel mute
\* registers they had at that moment
AppInstances == [holds |-> "app", pcm_mute |-> 0, midi_mute |-> 0]
Detached(pcm, midi) ==
    [holds |-> "detached", pcm_mute |-> pcm.channel_mute, midi_mute |-> midi.channel_mute]

\* before_start when the message handled last was no start attempt
NoAttempt == <<NoSPC, NoSPC, "none">>

\* the ghost record of the message handled last
Handled(msg, result) == last_msg' = [msg |-> msg, result |-> result]

AppParked ==
    /\ spc_file = NoFile
    /\ stream = "none"
    /\ stream_is_playing = FALSE
    /\ closure_spc = AppInstances
    /\ pcm_spc = NoSPC
    /\ midi_spc = NoSPC
    /\ stream_played_samples = 0
    /\ midi_output_bytes = 0
    /\ stream_device = TRUE
    /\ midi_out_conn = TRUE
    /\ pcm_spc_mute = FALSE
    /\ midi_spc_mute = FALSE
    /\ channel_mute_flags = 0
    /\ preview_loop = TRUE
    /\ source_infos = {}
    /\ source_parameter = <<>>
    /\ pending_update = 0
    /\ last_msg = [msg |-> "", result |-> ""]
    /\ before_start = NoAttempt

\* App::default: the audio device and the MIDI port may or may not be there
AppInit ==
    /\ spc_file = NoFile
    /\ stream = "none"
    /\ stream_is_playing = FALSE
    /\ closure_spc = AppInstances
    /\ pcm_spc = NoSPC
    /\ midi_spc = NoSPC
    /\ stream_played_samples = 0
    /\ midi_output_bytes = 0
    /\ stream_device \in BOOLEAN
    /\ midi_out_conn \in BOOLEAN
    /\ pcm_spc_mute = FALSE
    /\ midi_spc_mute = FALSE
    /\ channel_mute_flags = 0
    /\ preview_loop = TRUE
    /\ source_infos = {}
    /\ source_parameter = <<>>
    /\ pending_update = 0
    /\ last_msg = [msg |-> "", result |-> ""]
    /\ before_start = NoAttempt

\* the counters, capped at MaxCount
Saturate(count) == IF count > MaxCount THEN MaxCount ELSE count

\* Message::FileOpened(Ok((path, LoadedFile::SPCFile(data)))) with data that
\* parses: analyze_sources rebuilds both maps, both instances are constructed
\* anew, the counters are reset (lines 380-381).  The stream, if any, is left
\* alone: in_flight says that a data callback of the playback stream, which
\* loads both counters when it begins and stores them when it ends (lines
\* 1290-1291, 1343-1345), began before the reset and ends after it.
FileOpened(f, in_flight) ==
    /\ in_flight => stream = "main"
    /\ spc_file' = f
    /\ source_infos' = SourcesOf(f)
    /\ source_parameter' = [k \in SourcesOf(f) |-> DefaultParameter]
    /\ pcm_spc' = FreshSPC(f)
    /\ midi_spc' = FreshSPC(f)
    /\ stream_played_samples' = IF in_flight THEN Saturate(stream_played_samples + 1) ELSE 0
    /\ midi_output_bytes' = IF in_flight THEN midi_output_bytes ELSE 0
    /\ closure_spc' = IF stream = "main" /\ closure_spc = AppInstances
                       THEN Detached(pcm_spc, midi_spc) ELSE closure_spc
    /\ Handled("FileOpened", "")
    /\ before_start' = NoAttempt
    /\ UNCHANGED <<stream, stream_is_playing, stream_device, midi_out_conn,
                   pcm_spc_mute, midi_spc_mute, channel_mute_flags, preview_loop,
                   pending_update>>

\* the results of a file open that fail: Message::FileOpened(Err(_)), SPC
\* data parse_spc_file returns None for, JSON data serde_json returns Err for
FailedResults == {"Err", "SPCFile unparsed", "JSONFile malformed"}

\* a failing file open that resets the counters as a successful one does
FileOpenedFailedResets(result) ==
    /\ stream_played_samples' = 0
    /\ midi_output_bytes' = 0
    /\ Handled("FileOpened", result)
    /\ before_start' = NoAttempt
    /\ UNCHANGED <<spc_file, source_infos, source_parameter, pcm_spc, midi_spc,
                   closure_spc, stream, stream_is_playing, stream_device, midi_out_conn,
                   pcm_spc_mute, midi_spc_mute, channel_mute_flags, preview_loop,
                   pending_update>>

\* Message::FileOpened with a result of FailedResults, lines 351-423: the
\* branches at 355 (the `if let` has no else), 413-415 and 420-422 assign
\* nothing
FileOpenedFailed(result) ==
    /\ Handled("FileOpened", result)
    /\ before_start' = NoAttempt
    /\ UNCHANGED <<spc_file, source_infos, source_parameter, pcm_spc, midi_spc,
                   stream_played_samples, midi_output_bytes, closure_spc, stream,
                   stream_is_playing, stream_device, midi_out_conn, pcm_spc_mute,
                   midi_spc_mute, channel_mute_flags, preview_loop, pending_update>>

\* App::stream_play_stop, lines 1488-1496, as state after it: the flag and the
\* stream change only when a stream is held
StopFlag == IF stream # "none" THEN FALSE ELSE stream_is_playing
StopClosure == IF stream # "none" THEN AppInstances ELSE closure_spc

\* App::play_start: what it leaves behind, by the way it ends.  `outcome` is
\* what the audio host answers: "ok", "build_err" (build_output_stream fails)
\* or "play_err" (stream.play() fails).
PlayStartResult(outcome) ==
    IF pcm_spc = NoSPC \/ midi_spc = NoSPC THEN "Ok"
    ELSE IF ~stream_device \/ ~midi_out_conn THEN "Err"
    ELSE IF outcome = "ok" THEN "Ok" ELSE "Err"

\* the attempt got as far as the register writes of lines 1258-1278
PlayStartWrites ==
    /\ pcm_spc # NoSPC /\ midi_spc # NoSPC
    /\ stream_device /\ midi_out_conn

\* the attempt got as far as line 1355
PlayStartSetsFlag(outcome) == PlayStartWrites /\ outcome # "build_err"

\* the attempt got as far as line 1357
PlayStartStoresStream(outcome) == PlayStartWrites /\ outcome = "ok"

PlayStartEffect(outcome) ==
    /\ pcm_spc' = IF PlayStartWrites
                  THEN PlayStartMuteWrites(pcm_spc, pcm_spc_mute, channel_mute_flags)
                  ELSE pcm_spc
    /\ midi_spc' = IF PlayStartWrites
                   THEN ApplySourceParameter(
                            PlayStartMuteWrites(midi_spc, midi_spc_mute, channel_mute_flags),
                            source_parameter)
                   ELSE midi_spc
    /\ stream_is_playing' = IF PlayStartSetsFlag(outcome) THEN TRUE ELSE stream_is_playing
    /\ stream' = IF PlayStartStoresStream(outcome) THEN "main" ELSE stream
    /\ closure_spc' = IF PlayStartStoresStream(outcome) THEN AppInstances ELSE closure_spc
    /\ UNCHANGED <<stream_played_samples, midi_output_bytes>>

\* Message::ReceivedPlayStartRequest
ReceivedPlayStartRequest(outcome) ==
    /\ IF stream_is_playing
       THEN /\ stream_is_playing' = StopFlag
            /\ closure_spc' = StopClosure
            /\ stream' = "none"
            /\ Handled("ReceivedPlayStartRequest", "stopped")
            /\ before_start' = NoAttempt
            /\ UNCHANGED <<pcm_spc, midi_spc, stream_played_samples, midi_output_bytes>>
       ELSE /\ PlayStartEffect(outcome)
            /\ Handled("ReceivedPlayStartRequest", PlayStartResult(outcome))
            /\ before_start' = <<pcm_spc, midi_spc, stream>>
    /\ UNCHANGED <<spc_file, stream_device, midi_out_conn, pcm_spc_mute,
                   midi_spc_mute, channel_mute_flags, preview_loop, source_infos,
                   source_parameter, pending_update>>

\* a stop that drops the instances
ResetSPCDrops(spc) == NoSPC

\* the instances ReceivedPlayStopRequest leaves, lines 504-516
ResetSPC(spc) == IF spc_file # NoFile THEN FreshSPC(spc_file) ELSE spc

\* Message::ReceivedPlayStopRequest
ReceivedPlayStopRequest ==
    /\ IF stream_is_playing
       THEN /\ stream_is_playing' = StopFlag
            /\ closure_spc' = StopClosure
            /\ stream' = "none"
       ELSE UNCHANGED <<stream_is_playing, closure_spc, stream>>
    /\ pcm_spc' = ResetSPC(pcm_spc)
    /\ midi_spc' = ResetSPC(midi_spc)
    /\ stream_played_samples' = 0
    /\ midi_output_bytes' = 0
    /\ Handled("ReceivedPlayStopRequest", "")
    /\ before_start' = NoAttempt
    /\ UNCHANGED <<spc_file, stream_device, midi_out_conn, pcm_spc_mute,
                   midi_spc_mute, channel_mute_flags, preview_loop, source_infos,
                   source_parameter, pending_update>>

\* App::srn_play_start by the way it ends
SrnPlayStartResult(srn_no, outcome) ==
    IF srn_no \notin source_infos THEN "Ok"
    ELSE IF ~stream_device THEN "Err"
    ELSE IF outcome = "ok" THEN "Ok" ELSE "Err"

\* Message::ReceivedSRNPlayStartRequest(srn_no)
ReceivedSRNPlayStartRequest(srn_no, outcome) ==
    /\ IF stream_is_playing
       THEN /\ stream_is_playing' = StopFlag
            /\ closure_spc' = StopClosure
            /\ stream' = "none"
            /\ Handled("ReceivedSRNPlayStartRequest", "stopped")
       ELSE LET built == srn_no \in source_infos /\ stream_device /\ outcome # "build_err"
            IN  /\ stream_is_playing' = IF built THEN TRUE ELSE stream_is_playing
                /\ stream' = IF built /\ outcome = "ok" THEN "srn" ELSE stream
                /\ closure_spc' = IF built /\ outcome = "ok" THEN AppInstances ELSE closure_spc
                /\ Handled("ReceivedSRNPlayStartRequest", SrnPlayStartResult(srn_no, outcome))
    /\ before_start' = <<pcm_spc, midi_spc, stream>>
    /\ UNCHANGED <<spc_file, pcm_spc, midi_spc, stream_played_samples,
                   midi_output_bytes, stream_device, midi_out_conn, pcm_spc_mute,
                   midi_spc_mute, channel_mute_flags, preview_loop, source_infos,
                   source_parameter, pending_update>>

\* Message::SRNPlayLoopFlagToggled(flag)
SRNPlayLoopFlagToggled(flag) ==
    /\ preview_loop' = flag
    /\ Handled("SRNPlayLoopFlagToggled", "")
    /\ before_start' = NoAttempt
    /\ UNCHANGED <<spc_file, stream, stream_is_playing, closure_spc, pcm_spc,
                   midi_spc, stream_played_samples, midi_output_bytes,
                   stream_device, midi_out_conn, pcm_spc_mute, midi_spc_mute,
                   channel_mute_flags, source_infos, source_parameter,
                   pending_update>>

\* the data callback of the playback stream, lines 1289-1346: the instances
\* the closure holds execute, the counters advance.  `n` is 1 when the
\* resampler asked for emulation, `bytes` the MIDI bytes forwarded.
Advance(spc, n) ==
    IF spc = NoSPC THEN spc
    ELSE [spc EXCEPT !.steps = IF @ + n > MaxSteps THEN MaxSteps ELSE @ + n]


AudioCallback(n, bytes) ==
    /\ stream = "main"
    /\ pcm_spc' = IF closure_spc = AppInstances THEN Advance(pcm_spc, n) ELSE pcm_spc
    /\ midi_spc' = IF closure_spc = AppInstances THEN Advance(midi_spc, n) ELSE midi_spc
    /\ stream_played_samples' = Saturate(stream_played_samples + 1)
    /\ midi_output_bytes' = Saturate(midi_output_bytes + n * bytes)
    /\ UNCHANGED <<spc_file, stream, stream_is_playing, closure_spc, stream_device,
                   midi_out_conn, pcm_spc_mute, midi_spc_mute, channel_mute_flags,
                   preview_loop, source_infos, source_parameter, pending_update,
                   last_msg, before_start>>

\* the data callback of the preview stream reaching the end of the sample
\* with looping off, lines 1425-1444
SrnCallbackEnd ==
    /\ stream = "srn"
    /\ ~preview_loop
    /\ stream_is_playing' = FALSE
    /\ UNCHANGED <<spc_file, stream, closure_spc, pcm_spc, midi_spc,
                   stream_played_samples, midi_output_bytes, stream_device,
                   midi_out_conn, pcm_spc_mute, midi_spc_mute, channel_mute_flags,
                   preview_loop, source_infos, source_parameter, pending_update,
                   last_msg, before_start>>

\* Message::AudioOutputDeviceSelected: `found` says the named device exists
\* and has a default output configuration
AudioOutputDeviceSelected(found) ==
    /\ stream_device' = found
    /\ Handled("AudioOutputDeviceSelected", "")
    /\ before_start' = NoAttempt
    /\ UNCHANGED <<spc_file, stream, stream_is_playing, closure_spc, pcm_spc,
                   midi_spc, stream_played_samples, midi_output_bytes,
                   midi_out_conn, pcm_spc_mute, midi_spc_mute, channel_mute_flags,
                   preview_loop, source_infos, source_parameter, pending_update>>

\* Message::MIDIOutputPortSelected: `found` says the named port exists and
\* connects
MIDIOutputPortSelected(found) ==
    /\ midi_out_conn' = found
    /\ Handled("MIDIOutputPortSelected", "")
    /\ before_start' = NoAttempt
    /\ UNCHANGED <<spc_file, stream, stream_is_playing, closure_spc, pcm_spc,
                   midi_spc, stream_played_samples, midi_output_bytes,
                   stream_device, pcm_spc_mute, midi_spc_mute, channel_mute_flags,
                   preview_loop, source_infos, source_parameter, pending_update>>

\* the two register writes MuteChannel and SoloChannel share
WriteNewFlags(new_flags) ==
    /\ midi_spc' = WriteChannelMute(midi_spc, IF midi_spc_mute THEN 255 ELSE new_flags)
    /\ pcm_spc' = WriteChannelMute(pcm_spc, IF pcm_spc_mute THEN 255 ELSE new_flags)
    /\ channel_mute_flags' = new_flags

\* Message::MuteChannel(ch, flag)
MuteChannel(ch, flag) ==
    /\ IF pcm_spc # NoSPC /\ midi_spc # NoSPC
       THEN WriteNewFlags(IF flag THEN SetBit(channel_mute_flags, ch)
                                  ELSE ClearBit(channel_mute_flags, ch))
       ELSE UNCHANGED <<midi_spc, pcm_spc, channel_mute_flags>>
    /\ Handled("MuteChannel", "")
    /\ before_start' = NoAttempt
    /\ UNCHANGED <<spc_file, stream, stream_is_playing, closure_spc,
                   stream_played_samples, midi_output_bytes, stream_device,
                   midi_out_conn, pcm_spc_mute, midi_spc_mute, preview_loop,
                   source_infos, source_parameter, pending_update>>

\* Message::SoloChannel(ch)
SoloChannel(ch) ==
    /\ IF pcm_spc # NoSPC /\ midi_spc # NoSPC
       THEN WriteNewFlags(NotBit(ch))
       ELSE UNCHANGED <<midi_spc, pcm_spc, channel_mute_flags>>
    /\ Handled("SoloChannel", "")
    /\ before_start' = NoAttempt
    /\ UNCHANGED <<spc_file, stream, stream_is_playing, closure_spc,
                   stream_played_samples, midi_output_bytes, stream_device,
                   midi_out_conn, pcm_spc_mute, midi_spc_mute, preview_loop,
                   source_infos, source_parameter, pending_update>>

\* Message::SPCMuteFlagToggled(flag)
SPCMuteFlagToggled(flag) ==
    /\ IF pcm_spc # NoSPC
       THEN /\ pcm_spc' = WriteChannelMute(pcm_spc, IF flag THEN 255 ELSE channel_mute_flags)
            /\ pcm_spc_mute' = flag
       ELSE UNCHANGED <<pcm_spc, pcm_spc_mute>>
    /\ Handled("SPCMuteFlagToggled", "")
    /\ before_start' = NoAttempt
    /\ UNCHANGED <<spc_file, stream, stream_is_playing, closure_spc, midi_spc,
                   stream_played_samples, midi_output_bytes, stream_device,
                   midi_out_conn, midi_spc_mute, channel_mute_flags, preview_loop,
                   source_infos, source_parameter, pending_update>>

\* Message::MIDIMuteFlagToggled(flag)
MIDIMuteFlagToggled(flag) ==
    /\ IF midi_spc # NoSPC
       THEN /\ midi_spc' = WriteChannelMute(midi_spc, IF flag THEN 255 ELSE channel_mute_flags)
            /\ midi_spc_mute' = flag
       ELSE UNCHANGED <<midi_spc, midi_spc_mute>>
    /\ Handled("MIDIMuteFlagToggled", "")
    /\ before_start' = NoAttempt
    /\ UNCHANGED <<spc_file, stream, stream_is_playing, closure_spc, pcm_spc,
                   stream_played_samples, midi_output_bytes, stream_device,
                   midi_out_conn, pcm_spc_mute, channel_mute_flags, preview_loop,
                   source_infos, source_parameter, pending_update>>

\* Message::SRNMuteFlagToggled(srn_no, flag): the map is edited and a
\* ReceivedSourceParameterUpdate is sent, only for a source the map holds
SRNMuteFlagToggled(srn_no, flag) ==
    /\ IF srn_no \in DOMAIN source_parameter
       THEN /\ source_parameter' = [source_parameter EXCEPT ![srn_no].mute = flag]
            /\ pending_update' = Saturate(pending_update + 1)
       ELSE UNCHANGED <<source_parameter, pending_update>>
    /\ Handled("SRNMuteFlagToggled", "")
    /\ before_start' = NoAttempt
    /\ UNCHANGED <<spc_file, stream, stream_is_playing, closure_spc, pcm_spc,
                   midi_spc, stream_played_samples, midi_output_bytes,
                   stream_device, midi_out_conn, pcm_spc_mute, midi_spc_mute,
                   channel_mute_flags, preview_loop, source_infos>>

\* Message::ReceivedSourceParameterUpdate
ReceivedSourceParameterUpdate ==
    /\ pending_update > 0
    /\ pending_update' = pending_update - 1
    /\ midi_spc' = ApplySourceParameter(midi_spc, source_parameter)
    /\ Handled("ReceivedSourceParameterUpdate", "")
    /\ before_start' = NoAttempt
    /\ UNCHANGED <<spc_file, stream, stream_is_playing, closure_spc, pcm_spc,
                   stream_played_samples, midi_output_bytes, stream_device,
                   midi_out_conn, pcm_spc_mute, midi_spc_mute, channel_mute_flags,
                   preview_loop, source_infos, source_parameter>>

\* ------------------------------------------------------------------------
\* SpecVoice: one voice of the MIDI instance during one playback session,
\* from the key events of the emulated program to the MIDI sink.  The
\* encoder (spc700::mididsp::MIDIDSP) is not part of these sources; its voice
\* state machine is the one the specification gives.
\* ------------------------------------------------------------------------

\* the source number the scripted voice plays
VoiceSource == 0

\* the key events a program can produce for the voice between two ticks: a
\* write of its key-on bit, a write of its key-off bit, or its envelope
\* reaching silence
KeyEvents == {"kon", "kof", "decay"}

Count(seq, m) == Cardinality({i \in 1..Len(seq) : seq[i] = m})

\* the mute bit (0x80 of DSP_ADDRESS_SRN_FLAG) the encoder holds for a source
EncoderMuted(spc, srn_no) ==
    srn_no \in DOMAIN spc.srn /\ spc.srn[srn_no].mute

\* the PCM DSP at a tick: the voice follows the key event
DspTick(spc) ==
    [spc EXCEPT !.key = "none",
                !.voice = IF spc.key = "kon" THEN "Sounding"
                          ELSE IF spc.key \in {"kof", "decay"} THEN "Idle"
                          ELSE @]

\* the encoder at a tick: [spc |-> the instance after it, msgs |-> the batch].
\* A muted voice is forced off and takes no key-on; Idle -> Sounding on a
\* key-on with a note-on; Sounding -> Idle on a key-off or on decay with the
\* note-off.
EncoderTick(spc) ==
    LET muted == EncoderMuted(spc, VoiceSource)
        ends == spc.voice = "Sounding" /\ (muted \/ spc.key \in {"kof", "decay"})
        starts == spc.voice = "Idle" /\ ~muted /\ spc.key = "kon"
    IN  [spc |-> [spc EXCEPT !.key = "none",
                             !.voice = IF ends THEN "Idle"
                                       ELSE IF starts THEN "Sounding" ELSE @],
         msgs |-> IF ends THEN <<"NoteOff">>
                  ELSE IF starts THEN <<"NoteOn">> ELSE <<>>]

\* the loop of lines 1316-1320 stopping one message short
ForwardAllButLast(sink, msgs) ==
    IF msgs = <<>> THEN sink ELSE sink \o SubSeq(msgs, 1, Len(msgs) - 1)

\* lines 1314-1321: every message of the batch is sent, in order
ForwardMessages(sink, msgs) == sink \o msgs

VoiceParked ==
    /\ midi_sink = <<>>
    /\ key_script = <<>>
    /\ keyons_taken = 0
    /\ voice_ends = 0
    /\ tick_no = 0

\* the App with file 1 open and playback started (FileOpened, then
\* ReceivedPlayStartRequest answered "ok")
VoiceAppInit ==
    /\ spc_file = 1
    /\ stream = "main"
    /\ stream_is_playing = TRUE
    /\ closure_spc = AppInstances
    /\ pcm_spc = FreshSPC(1)
    /\ midi_spc = ApplyParameterMap(FreshSPC(1), [k \in SourcesOf(1) |-> DefaultParameter])
    /\ stream_played_samples = 0
    /\ midi_output_bytes = 0
    /\ stream_device = TRUE
    /\ midi_out_conn = TRUE
    /\ pcm_spc_mute = FALSE
    /\ midi_spc_mute = FALSE
    /\ channel_mute_flags = 0
    /\ preview_loop = TRUE
    /\ source_infos = SourcesOf(1)
    /\ source_parameter = [k \in SourcesOf(1) |-> DefaultParameter]
    /\ pending_update = 0
    /\ last_msg = [msg |-> "ReceivedPlayStartRequest", result |-> "Ok"]
    /\ before_start = <<FreshSPC(1), FreshSPC(1), "none">>

\* spc.execute_step() / midispc.execute_step() of lines 1301-1302 in which
\* the program produces a key event for the voice; both instances run the
\* same program
KeyWrite(ev) ==
    /\ stream = "main" /\ closure_spc = AppInstances
    /\ midi_spc.key = "none"
    /\ tick_no < MaxVoiceTicks
    /\ pcm_spc' = [pcm_spc EXCEPT !.key = ev]
    /\ midi_spc' = [midi_spc EXCEPT !.key = ev]
    /\ key_script' = Append(key_script, ev)
    /\ UNCHANGED <<spc_file, stream, stream_is_playing, closure_spc,
                   stream_played_samples, midi_output_bytes, stream_device,
                   midi_out_conn, pcm_spc_mute, midi_spc_mute, channel_mute_flags,
                   preview_loop, source_infos, source_parameter, pending_update,
                   last_msg, before_start>>
    /\ UNCHANGED <<midi_sink, keyons_taken, voice_ends, tick_no>>

\* the data callback, lines 1289-1346, running the emulation through one
\* 64 kHz tick: both instances tick, the batch of the MIDI instance is sent
VoiceTick ==
    /\ stream = "main" /\ closure_spc = AppInstances
    /\ tick_no < MaxVoiceTicks
    /\ LET r == EncoderTick(midi_spc)
       IN  /\ midi_spc' = Advance(r.spc, 1)
           /\ midi_sink' = ForwardMessages(midi_sink, r.msgs)
           /\ midi_output_bytes' = Saturate(midi_output_bytes + 3 * Len(r.msgs))
           /\ voice_ends' = IF midi_spc.voice = "Sounding" /\ r.spc.voice = "Idle"
                            THEN voice_ends + 1 ELSE voice_ends
    /\ keyons_taken' = IF /\ midi_spc.key = "kon"
                          /\ midi_spc.voice = "Idle"
                          /\ ~EncoderMuted(midi_spc, VoiceSource)
                       THEN keyons_taken + 1 ELSE keyons_taken
    /\ pcm_spc' = Advance(DspTick(pcm_spc), 1)
    /\ stream_played_samples' = Saturate(stream_played_samples + 1)
    /\ tick_no' = tick_no + 1
    /\ UNCHANGED <<spc_file, stream, stream_is_playing, closure_spc, stream_device,
                   midi_out_conn, pcm_spc_mute, midi_spc_mute, channel_mute_flags,
                   preview_loop, source_infos, source_parameter, pending_update,
                   last_msg, before_start>>
    /\ UNCHANGED key_script

\* ------------------------------------------------------------------------
\* SpecBpm: tempo estimation (bpm_estimation and estimate_bpm)
\* ------------------------------------------------------------------------

DEFAULT_ANALYZING_TIME_SEC == 120
SPC_SAMPLING_RATE == 32000
TEMPO_ESTIMATION_FRAME_SIZE == 64
MIN_BPM == 30
MAX_BPM == 240
MIN_LAG == (60 * SPC_SAMPLING_RATE) \div (MAX_BPM * TEMPO_ESTIMATION_FRAME_SIZE)
MAX_LAG == (60 * SPC_SAMPLING_RATE) \div (MIN_BPM * TEMPO_ESTIMATION_FRAME_SIZE)

\* types.rs DEFAULT_MIDI_BPM, in eighths of a beat
DefaultBpm == 8 * 120

\* the tempi the preference window can send, in sixteenths of a beat
BpmInputs == {1919, 1920, 1921, 2402}

\* the candidate lags the autocorrelation of an onset signal can yield: the
\* lags i of MIN_LAG..=MAX_LAG with auto_corr[i] >= 0.98 * max.  None when
\* every value of the range is negative or NaN.
PeakLagSets == {{}, {MIN_LAG}, {MIN_LAG, 500}, {500}, {MAX_LAG}}

\* bpm_estimation's loop: one onset sample per 64 kHz tick
OnsetSignalLen(analyze_duration_sec) == analyze_duration_sec * 64000

\* signal.chunks(TEMPO_ESTIMATION_FRAME_SIZE).len()
NumFrames(len) ==
    (len + TEMPO_ESTIMATION_FRAME_SIZE - 1) \div TEMPO_ESTIMATION_FRAME_SIZE

\* auto_corr.len(): the first half of the transform, line 219
AutoCorrLen(len) == NumFrames(len) \div 2

SetMin(S) == CHOOSE x \in S : \A y \in S : x <= y

\* f32::round(estimated_bpm * 4.0) / 4.0 of line 1031 in eighths of a beat,
\* the estimate being (60 * SPC_SAMPLING_RATE) / (lag * TEMPO_ESTIMATION_FRAME_SIZE)
RoundedBpm(lag) ==
    LET num == 4 * 60 * SPC_SAMPLING_RATE
        den == lag * TEMPO_ESTIMATION_FRAME_SIZE
    IN  2 * ((2 * num + den) \div (2 * den))

\* estimate_bpm: the slice auto_corr[MIN_LAG..=MAX_LAG] of line 225 needs
\* MAX_LAG < auto_corr.len(), peak_lags[0] of line 238 needs a candidate
EstimateBpm(len, peak_lags) ==
    IF AutoCorrLen(len) <= MAX_LAG THEN [panic |-> TRUE, bpm |-> 0]
    ELSE IF peak_lags = {} THEN [panic |-> TRUE, bpm |-> 0]
    ELSE [panic |-> FALSE, bpm |-> RoundedBpm(SetMin(peak_lags))]

\* App::bpm_estimation
BpmEstimation(analyze_duration_sec, peak_lags) ==
    EstimateBpm(OnsetSignalLen(analyze_duration_sec), peak_lags)

NoBpmFile == [loaded |-> FALSE, duration |-> 0, peak_lags |-> {}]

BpmParked ==
    /\ bpm_file = NoBpmFile
    /\ beats_per_minute = DefaultBpm
    /\ bpm_panicked = FALSE

\* the tempo a call of bpm_estimation leaves in the configuration
StoreBpm(r) ==
    /\ bpm_panicked' = r.panic
    /\ beats_per_minute' = IF r.panic THEN beats_per_minute ELSE r.bpm

\* Message::FileOpened with an SPC file whose header states `duration`:
\* analyze_sources runs over the duration, or over the default when it is 0
BpmFileOpened(duration, peak_lags) ==
    /\ ~bpm_panicked
    /\ bpm_file' = [loaded |-> TRUE, duration |-> duration, peak_lags |-> peak_lags]
    /\ StoreBpm(BpmEstimation(IF duration > 0 THEN duration
                              ELSE DEFAULT_ANALYZING_TIME_SEC, peak_lags))

\* Message::MIDIOutputBpmChanged(bpm): (bpm * 8.0).round() / 8.0, the input
\* in sixteenths of a beat
MIDIOutputBpmChanged(bpm16) ==
    /\ ~bpm_panicked
    /\ beats_per_minute' = (bpm16 + 1) \div 2
    /\ UNCHANGED <<bpm_file, bpm_panicked>>

\* Message::ReceivedBpmAnalyzeRequest: the header duration as it is
ReceivedBpmAnalyzeRequest ==
    /\ ~bpm_panicked
    /\ IF bpm_file.loaded
       THEN StoreBpm(BpmEstimation(bpm_file.duration, bpm_file.peak_lags))
       ELSE UNCHANGED <<beats_per_minute, bpm_panicked>>
    /\ UNCHANGED bpm_file

\* ------------------------------------------------------------------------
\* SpecAnalyze: analyze_sources, in two runs of the program that share
\* nothing but the build and the files they are given
\* ------------------------------------------------------------------------

Runs == {1, 2}

\* the snapshots at hand.  dir: the DIR register; keyons: the key-ons the
\* program produces, each with the second it happens in and the source
\* number of the voice; start, loop: the directory entry of its sources;
\* signal_len: the samples the decoder yields; duration: the header's play
\* time; peak_lags: the candidate lags of its onset signal.
Snapshots ==
    <<[dir |-> 4, keyons |-> <<[at |-> 0, srcn |-> 0]>>,
       start |-> 1280, loop |-> 1312, signal_len |-> 32, duration |-> 3,
       peak_lags |-> {500}],
      [dir |-> 4, keyons |-> <<[at |-> 0, srcn |-> 0], [at |-> 3, srcn |-> 1]>>,
       start |-> 1280, loop |-> 1280, signal_len |-> 16, duration |-> 4,
       peak_lags |-> {MIN_LAG}],
      [dir |-> 255, keyons |-> <<[at |-> 0, srcn |-> 64]>>,
       start |-> 1280, loop |-> 1312, signal_len |-> 32, duration |-> 3,
       peak_lags |-> {500}],
      [dir |-> 4, keyons |-> <<[at |-> 0, srcn |-> 0]>>,
       start |-> 1312, loop |-> 1280, signal_len |-> 32, duration |-> 0,
       peak_lags |-> {500}]>>

\* shortest window for which tempo estimation has enough frames (SpecBpm
\* covers the shorter ones)
MinAnalyzeDuration ==
    CHOOSE d \in 0..MaxDuration :
        /\ AutoCorrLen(OnsetSignalLen(d)) > MAX_LAG
        /\ \A e \in 0..(d - 1) : AutoCorrLen(OnsetSignalLen(e)) <= MAX_LAG

\* map.insert(key, value)
Insert(map, key, value) ==
    [k \in (DOMAIN map) \cup {key} |-> IF k = key THEN value ELSE map[k]]

\* lines 1062-1070: ((DIR as u16) << 8) + 4 * (sample_source as u16), in u16
DirAddress(profile, dir, srcn) ==
    LET sum == dir * 256 + 4 * srcn
    IN  IF sum < 65536 THEN [panic |-> FALSE, value |-> sum]
        ELSE IF profile = "debug" THEN [panic |-> TRUE, value |-> 0]
        ELSE [panic |-> FALSE, value |-> sum % 65536]

\* the loop of lines 1056-1081 over the key-ons that fall into the window
RECURSIVE ScanKeyOns(_, _, _, _, _)
ScanKeyOns(profile, snap, duration, i, map) ==
    IF i > Len(snap.keyons) THEN [panic |-> FALSE, map |-> map]
    ELSE IF snap.keyons[i].at >= duration
         THEN ScanKeyOns(profile, snap, duration, i + 1, map)
    ELSE LET a == DirAddress(profile, snap.dir, snap.keyons[i].srcn)
         IN  IF a.panic THEN [panic |-> TRUE, map |-> map]
             ELSE ScanKeyOns(profile, snap, duration, i + 1,
                             Insert(map, snap.keyons[i].srcn, a.value))

\* line 1112: ((loop_address - start_address) * 16) / 9 in usize.  A wrapped
\* result is kept as the amount it lies below the word size before the
\* division.
LoopStartSample(profile, start, loop) ==
    IF loop >= start
    THEN [panic |-> FALSE, wrapped |-> FALSE, value |-> ((loop - start) * 16) \div 9]
    ELSE IF profile = "debug" THEN [panic |-> TRUE, wrapped |-> FALSE, value |-> 0]
    ELSE [panic |-> FALSE, wrapped |-> TRUE, value |-> (start - loop) * 16]

\* lines 1103-1113: the SourceInformation of a source
SourceInfo(snap, dir_address, loop_start) ==
    [dir_address |-> dir_address,
     signal_len |-> snap.signal_len,
     start_address |-> snap.start,
     end_address |-> snap.start + (snap.signal_len * 9) \div 16,
     loop_start_sample |-> [wrapped |-> loop_start.wrapped, value |-> loop_start.value]]

\* the loop of lines 1089-1138 over start_address_map in key order
RECURSIVE DecodeSources(_, _, _, _, _)
DecodeSources(profile, snap, todo, address_map, r) ==
    IF todo = {} THEN r
    ELSE LET srn == SetMin(todo)
             loop_start == LoopStartSample(profile, snap.start, snap.loop)
         IN  IF loop_start.panic THEN [r EXCEPT !.panicked = TRUE]
             ELSE DecodeSources(profile, snap, todo \ {srn}, address_map,
                     [r EXCEPT !.source_infos =
                                   Insert(@, srn, SourceInfo(snap, address_map[srn], loop_start)),
                               !.source_parameter = Insert(@, srn, DefaultParameter)])

\* lines 1044-1048 without the two assignments
KeptMap(map) == map

\* lines 1044-1048: *infos = BTreeMap::new(); *params = BTreeMap::new()
ClearedMap(map) == <<>>

\* App::analyze_sources on the fields r of one run
AnalyzeSources(profile, r, f, duration) ==
    LET snap == Snapshots[f]
        scan == ScanKeyOns(profile, snap, duration, 1, <<>>)
        bpm == BpmEstimation(duration, snap.peak_lags)
        begun == [r EXCEPT !.source_infos = ClearedMap(@),
                           !.source_parameter = ClearedMap(@),
                           !.start_address_map = scan.map,
                           !.prior = r.source_parameter,
                           !.last = [kind |-> "analyzed", file |-> f, duration |-> duration]]
    IN  IF scan.panic \/ bpm.panic THEN [begun EXCEPT !.panicked = TRUE]
        ELSE DecodeSources(profile, snap, DOMAIN scan.map, scan.map,
                           [begun EXCEPT !.beats_per_minute = bpm.bpm])

\* the fields of a run after a message that is no analysis: what is kept of
\* the last analysis besides the two maps is dropped
Other(r) ==
    [r EXCEPT !.start_address_map = <<>>, !.prior = <<>>,
              !.last = [kind |-> "other", file |-> NoFile, duration |-> 0]]

NoRun ==
    [spc_file |-> NoFile, output_duration |-> 60, beats_per_minute |-> DefaultBpm,
     source_infos |-> <<>>, source_parameter |-> <<>>, start_address_map |-> <<>>,
     prior |-> <<>>, last |-> [kind |-> "none", file |-> NoFile, duration |-> 0],
     panicked |-> FALSE]

AnalyzeParked ==
    /\ build = "release"
    /\ run = [r \in Runs |-> NoRun]

AnalyzeInit ==
    /\ build \in {"debug", "release"}
    /\ run = [r \in Runs |-> NoRun]

\* Message::FileOpened with SPC file f, lines 351-398
RunFileOpened(r, f) ==
    /\ ~run[r].panicked
    /\ LET d == Snapshots[f].duration
           analyzed == AnalyzeSources(build, [run[r] EXCEPT !.spc_file = f], f,
                                      IF d > 0 THEN d ELSE DEFAULT_ANALYZING_TIME_SEC)
       IN  run' = [run EXCEPT ![r] =
                      IF analyzed.panicked THEN analyzed
                      ELSE [analyzed EXCEPT !.output_duration = IF d > 0 THEN d ELSE 60]]
    /\ UNCHANGED build

\* Message::ReceivedSRNReanalyzeRequest, lines 904-918
ReceivedSRNReanalyzeRequest(r) ==
    /\ ~run[r].panicked
    /\ run' = [run EXCEPT ![r] =
                  IF @.spc_file # NoFile
                  THEN AnalyzeSources(build, @, @.spc_file, @.output_duration)
                  ELSE Other(@)]
    /\ UNCHANGED build

\* Message::MIDIOutputDurationChanged(duration), in seconds
MIDIOutputDurationChanged(r, duration) ==
    /\ ~run[r].panicked
    /\ run' = [run EXCEPT ![r] = Other([@ EXCEPT !.output_duration = duration])]
    /\ UNCHANGED build

\* a mute toggle that drops the SourceInformation of the source it names
RunSRNMuteFlagToggledDropsInfo(r, srn_no, flag) ==
    /\ ~run[r].panicked
    /\ run' = [run EXCEPT ![r] =
                  IF srn_no \in DOMAIN @.source_parameter
                  THEN Other([@ EXCEPT !.source_parameter[srn_no].mute = flag,
                                       !.source_infos = [k \in DOMAIN @ \ {srn_no} |-> @[k]]])
                  ELSE Other(@)]
    /\ UNCHANGED build

\* Message::SRNMuteFlagToggled(srn_no, flag) in run r
RunSRNMuteFlagToggled(r, srn_no, flag) ==
    /\ ~run[r].panicked
    /\ run' = [run EXCEPT ![r] =
                  IF srn_no \in DOMAIN @.source_parameter
                  THEN Other([@ EXCEPT !.source_parameter[srn_no].mute = flag])
                  ELSE Other(@)]
    /\ UNCHANGED build

\* the exported settings at hand: the default configuration and a record for
\* a source no snapshot has
RunJsonFiles ==
    {[output_duration |-> MaxDuration, beats_per_minute |-> DefaultBpm,
      source_parameter |-> (2 :> DefaultParameter)]}

\* a JSON load that takes the map of the file in place of the stored one
RunFileOpenedJsonOverwrites(r, json) ==
    /\ ~run[r].panicked
    /\ run' = [run EXCEPT ![r] =
                  Other([@ EXCEPT !.output_duration = json.output_duration,
                                  !.beats_per_minute = json.beats_per_minute,
                                  !.source_parameter = json.source_parameter])]
    /\ UNCHANGED build

\* Message::FileOpened with a JSON file that parses, lines 401-412 in run r:
\* the configuration is replaced, the records of the file are inserted
RunFileOpenedJson(r, json) ==
    /\ ~run[r].panicked
    /\ run' = [run EXCEPT ![r] =
                  Other([@ EXCEPT !.output_duration = json.output_duration,
                                  !.beats_per_minute = json.beats_per_minute,
                                  !.source_parameter =
                                      [k \in (DOMAIN @) \cup (DOMAIN json.source_parameter) |->
                                          IF k \in DOMAIN json.source_parameter
                                          THEN json.source_parameter[k] ELSE @[k]]])]
    /\ UNCHANGED build

\* ------------------------------------------------------------------------
\* SpecEdit: the messages that edit the SourceParameter map and the
\* MIDIOutputConfigure, after a snapshot with two sources has been opened
\* ------------------------------------------------------------------------

\* the source numbers the analysis has found; a message may name any of
\* EditTargets
EditSources == {0, 1}
EditTargets == {0, 1, 2}

\* arguments of the messages: u8, u16 and u64 values with both ends of
\* their range (a u64 as four 16-bit limbs, most significant first), notes,
\* fractions of a semitone in 1/1024, tempi in 1/32 of a beat
U8Inputs == {0, 255}
U16Inputs == {0, 24, 65535}
U64Inputs == {<<0, 0, 0, 0>>, <<0, 0, 0, 1000>>, <<65535, 65535, 65535, 65535>>}
NoteInputs == {0, 60, 127, 200}
FractionInputs == {0, 1, 511, 1023, 1024}
Bpm32Inputs == {1022, 1023, 1025, 7680}
Programs == {"AcousticGrand", "BrightAcoustic"}

\* analyze_sources, lines 1119-1136: the record of a source that is no drum
\* and whose estimated note is 69
AnalyzedParameter ==
    [mute |-> FALSE, program |-> "AcousticGrand", center_note |-> 69 * 512,
     noteon_velocity |-> 100, pitch_bend_width |-> 12,
     envelope_as_expression |-> FALSE, auto_pan |-> TRUE, fixed_pan |-> 64,
     auto_volume |-> TRUE, fixed_volume |-> 100, enable_pitch_bend |-> TRUE,
     echo_as_effect1 |-> TRUE]

\* App::default, lines 178-247, and FileOpened: the configuration with the
\* tempo the analysis stored (in eighths of a beat)
AnalyzedConfigure ==
    [output_duration_msec |-> <<0, 0, 0, 60000>>,
     playback_parameter_update_period |-> 5,
     beats_per_minute |-> DefaultBpm,
     ticks_per_quarter |-> 480,
     spc_clockup_factor |-> 1]

\* the registers of a MIDI instance nothing has been written to
FreshRegs == [srn |-> <<>>, period |-> 0]

NoEdit ==
    [msg |-> "none", srn_no |-> 0, value |-> 0, params |-> <<>>,
     config |-> AnalyzedConfigure,
     prior |-> [msg |-> "none", srn_no |-> 0, value |-> 0]]

EditParked ==
    /\ edit_params = <<>>
    /\ edit_config = AnalyzedConfigure
    /\ edit_queue = 0
    /\ edit_regs = FreshRegs
    /\ edit_last = [NoEdit EXCEPT !.msg = "parked"]
    /\ edit_count = 0

\* what every handler of this section does besides its own assignment: the
\* message becomes the one handled last, with the maps as it found them
EditHandled(msg, srn_no, value) ==
    /\ edit_count < MaxEdits
    /\ edit_count' = edit_count + 1
    /\ edit_last' = [msg |-> msg, srn_no |-> srn_no, value |-> value,
                     params |-> edit_params, config |-> edit_config,
                     prior |-> [msg |-> edit_last.msg, srn_no |-> edit_last.srn_no,
                                value |-> IF edit_last.msg \in {"CenterNoteIntChanged",
                                                                "CenterNoteFractionChanged"}
                                          THEN edit_last.value ELSE 0]]

\* Task::perform(async {}, |_| Message::ReceivedSourceParameterUpdate)
SendParameterUpdate == edit_queue' = edit_queue + 1

\* the handlers of lines 555-563 and 622-693 have one shape: if the source is
\* in the map its field is assigned and the update is sent, else nothing
\* happens
EditField(srn_no, params) ==
    /\ IF srn_no \in DOMAIN edit_params
       THEN edit_params' = params /\ SendParameterUpdate
       ELSE UNCHANGED <<edit_params, edit_queue>>
    /\ UNCHANGED <<edit_config, edit_regs>>

\* the handlers of lines 564-579 and 606-621 send the update (and, with the
\* preview switched on, a preview request, which touches none of these
\* fields) whether or not the source is in the map
EditFieldAndPreview(srn_no, params) ==
    /\ edit_params' = IF srn_no \in DOMAIN edit_params THEN params ELSE edit_params
    /\ SendParameterUpdate
    /\ UNCHANGED <<edit_config, edit_regs>>

\* Message::SRNMuteFlagToggled(srn_no, flag), lines 555-563
EditSRNMuteFlagToggled(srn_no, flag) ==
    /\ EditField(srn_no, [edit_params EXCEPT ![srn_no].mute = flag])
    /\ EditHandled("SRNMuteFlagToggled", srn_no, flag)

\* Message::ProgramSelected(srn_no, program), lines 564-579
ProgramSelected(srn_no, program) ==
    /\ EditFieldAndPreview(srn_no, [edit_params EXCEPT ![srn_no].program = program])
    /\ EditHandled("ProgramSelected", srn_no, program)

\* Message::NoteOnVelocityChanged(srn_no, velocity), lines 606-621
NoteOnVelocityChanged(srn_no, velocity) ==
    /\ EditFieldAndPreview(srn_no, [edit_params EXCEPT ![srn_no].noteon_velocity = velocity])
    /\ EditHandled("NoteOnVelocityChanged", srn_no, velocity)

\* Message::PitchBendWidthChanged(srn_no, width), lines 622-630
PitchBendWidthChanged(srn_no, width) ==
    /\ EditField(srn_no, [edit_params EXCEPT ![srn_no].pitch_bend_width = width])
    /\ EditHandled("PitchBendWidthChanged", srn_no, width)

\* Message::EnablePitchBendFlagToggled(srn_no, flag), lines 631-639
EnablePitchBendFlagToggled(srn_no, flag) ==
    /\ EditField(srn_no, [edit_params EXCEPT ![srn_no].enable_pitch_bend = flag])
    /\ EditHandled("EnablePitchBendFlagToggled", srn_no, flag)

\* Message::AutoPanFlagToggled(srn_no, flag), lines 640-648
AutoPanFlagToggled(srn_no, flag) ==
    /\ EditField(srn_no, [edit_params EXCEPT ![srn_no].auto_pan = flag])
    /\ EditHandled("AutoPanFlagToggled", srn_no, flag)

\* lines 649-657 assigning the volume instead of the pan
FixedPanChangedVolume(srn_no, pan) ==
    /\ EditField(srn_no, [edit_params EXCEPT ![srn_no].fixed_volume = pan])
    /\ EditHandled("FixedPanChanged", srn_no, pan)

\* Message::FixedPanChanged(srn_no, pan), lines 649-657
FixedPanChanged(srn_no, pan) ==
    /\ EditField(srn_no, [edit_params EXCEPT ![srn_no].fixed_pan = pan])
    /\ EditHandled("FixedPanChanged", srn_no, pan)

\* Message::AutoVolumeFlagToggled(srn_no, flag), lines 658-666
AutoVolumeFlagToggled(srn_no, flag) ==
    /\ EditField(srn_no, [edit_params EXCEPT ![srn_no].auto_volume = flag])
    /\ EditHandled("AutoVolumeFlagToggled", srn_no, flag)

\* Message::FixedVolumeChanged(srn_no, volume), lines 667-675
FixedVolumeChanged(srn_no, volume) ==
    /\ EditField(srn_no, [edit_params EXCEPT ![srn_no].fixed_volume = volume])
    /\ EditHandled("FixedVolumeChanged", srn_no, volume)

\* Message::EnvelopeAsExpressionFlagToggled(srn_no, flag), lines 676-684
EnvelopeAsExpressionFlagToggled(srn_no, flag) ==
    /\ EditField(srn_no, [edit_params EXCEPT ![srn_no].envelope_as_expression = flag])
    /\ EditHandled("EnvelopeAsExpressionFlagToggled", srn_no, flag)

\* Message::EchoAsEffect1FlagToggled(srn_no, flag), lines 685-693
EchoAsEffect1FlagToggled(srn_no, flag) ==
    /\ EditField(srn_no, [edit_params EXCEPT ![srn_no].echo_as_effect1 = flag])
    /\ EditHandled("EchoAsEffect1FlagToggled", srn_no, flag)

\* f32::round(fraction * 512.0) for a fraction >= 0 given in 1/1024: halves
\* round away from zero
RoundFraction512(fraction1024) == (fraction1024 + 1) \div 2

\* .clamp(0.0, 511.0) as u16
ClampFraction(rounded) ==
    IF rounded < 0 THEN 0 ELSE IF rounded > 511 THEN 511 ELSE rounded

\* line 583 without the mask that keeps the fraction
CenterNoteIntOnly(center_note, note) == (note * 512) % 65536

\* line 583: (param.center_note & 0x01FF) | ((note as u16) << 9); the shift
\* drops the bits above bit 15
CenterNoteWithInt(center_note, note) ==
    (center_note % 512) + ((note * 512) % 65536)

\* line 600: (param.center_note & 0xFE00) | clamped_fraction
CenterNoteWithFraction(center_note, clamped_fraction) ==
    (center_note \div 512) * 512 + clamped_fraction

\* Message::CenterNoteIntChanged(srn_no, note), lines 580-595
CenterNoteIntChanged(srn_no, note) ==
    /\ EditFieldAndPreview(srn_no,
           [edit_params EXCEPT ![srn_no].center_note = CenterNoteWithInt(@, note)])
    /\ EditHandled("CenterNoteIntChanged", srn_no, note)

\* Message::CenterNoteFractionChanged(srn_no, fraction), lines 596-605
CenterNoteFractionChanged(srn_no, fraction1024) ==
    /\ EditField(srn_no,
           [edit_params EXCEPT ![srn_no].center_note =
               CenterNoteWithFraction(@, ClampFraction(RoundFraction512(fraction1024)))])
    /\ EditHandled("CenterNoteFractionChanged", srn_no, fraction1024)

\* line 800 truncating instead of rounding
TruncateBpm(bpm32) == bpm32 \div 4

\* line 800: (bpm * 8.0).round() / 8.0 for a tempo given in 1/32 of a beat, the
\* result in eighths; halves round away from zero
RoundBpm(bpm32) == (bpm32 + 2) \div 4

\* Message::MIDIOutputBpmChanged(bpm), lines 797-801
EditMIDIOutputBpmChanged(bpm32) ==
    /\ edit_config' = [edit_config EXCEPT !.beats_per_minute = RoundBpm(bpm32)]
    /\ UNCHANGED <<edit_params, edit_queue, edit_regs>>
    /\ EditHandled("MIDIOutputBpmChanged", 0, bpm32)

\* Message::MIDIOutputTicksPerQuarterChanged(ticks), lines 802-805
MIDIOutputTicksPerQuarterChanged(ticks) ==
    /\ edit_config' = [edit_config EXCEPT !.ticks_per_quarter = ticks]
    /\ UNCHANGED <<edit_params, edit_queue, edit_regs>>
    /\ EditHandled("MIDIOutputTicksPerQuarterChanged", 0, ticks)

\* Message::MIDIOutputUpdatePeriodChanged(period), lines 806-811
MIDIOutputUpdatePeriodChanged(period) ==
    /\ edit_config' = [edit_config EXCEPT !.playback_parameter_update_period = period]
    /\ SendParameterUpdate
    /\ UNCHANGED <<edit_params, edit_regs>>
    /\ EditHandled("MIDIOutputUpdatePeriodChanged", 0, period)

\* Message::MIDIOutputDurationChanged(duration), lines 812-815
EditMIDIOutputDurationChanged(duration) ==
    /\ edit_config' = [edit_config EXCEPT !.output_duration_msec = duration]
    /\ UNCHANGED <<edit_params, edit_queue, edit_regs>>
    /\ EditHandled("MIDIOutputDurationChanged", 0, duration)

\* Message::MIDIOutputSPC700ClockUpFactorChanged(factor), lines 816-819
MIDIOutputSPC700ClockUpFactorChanged(factor) ==
    /\ edit_config' = [edit_config EXCEPT !.spc_clockup_factor = factor]
    /\ UNCHANGED <<edit_params, edit_queue, edit_regs>>
    /\ EditHandled("MIDIOutputSPC700ClockUpFactorChanged", 0, factor)

\* `if flag { 0x80 } else { 0x00 } | value` on u8
OrBit7(flag, value) == IF flag /\ value < 128 THEN value + 128 ELSE value

\* fn apply_source_parameter, lines 1572-1612: the registers written for
\* one source
SourceRegisters(param) ==
    [flag |-> (IF param.mute THEN 128 ELSE 0)
              + (IF param.envelope_as_expression THEN 64 ELSE 0)
              + (IF param.echo_as_effect1 THEN 32 ELSE 0),
     program |-> param.program,
     noteon_velocity |-> param.noteon_velocity,
     center_note_high |-> (param.center_note \div 256) % 256,
     center_note_low |-> param.center_note % 256,
     volume |-> OrBit7(param.auto_volume, param.fixed_volume),
     pan |-> OrBit7(param.auto_pan, param.fixed_pan),
     pitchbend_sensitivity |-> OrBit7(param.enable_pitch_bend, param.pitch_bend_width)]

\* fn apply_source_parameter, lines 1565-1621: every source of the map is
\* targeted and written, the registers of other sources keep their value,
\* then the update period is written
WriteRegisters(regs, config, params) ==
    [srn |-> [k \in (DOMAIN regs.srn) \cup (DOMAIN params) |->
                 IF k \in DOMAIN params THEN SourceRegisters(params[k])
                 ELSE regs.srn[k]],
     period |-> config.playback_parameter_update_period]

\* Message::ReceivedSourceParameterUpdate, lines 744-746, delivered by a
\* task; the MIDI instance exists since the file was opened
EditReceivedSourceParameterUpdate ==
    /\ edit_queue > 0
    /\ edit_queue' = edit_queue - 1
    /\ edit_regs' = WriteRegisters(edit_regs, edit_config, edit_params)
    /\ UNCHANGED <<edit_params, edit_config, edit_last, edit_count>>

\* Message::SRNCenterNoteOctaveUpClicked(srn_no), lines 694-712: OCTAVE_NOTE
\* is 12 << 9
SRNCenterNoteOctaveUpClicked(srn_no) ==
    /\ IF srn_no \in DOMAIN edit_params /\ edit_params[srn_no].center_note + 12 * 512 <= 65535
       THEN /\ edit_params' = [edit_params EXCEPT ![srn_no].center_note = @ + 12 * 512]
            /\ SendParameterUpdate
       ELSE UNCHANGED <<edit_params, edit_queue>>
    /\ UNCHANGED <<edit_config, edit_regs>>
    /\ EditHandled("SRNCenterNoteOctaveUpClicked", srn_no, 0)

\* Message::SRNCenterNoteOctaveDownClicked(srn_no), lines 713-730
SRNCenterNoteOctaveDownClicked(srn_no) ==
    /\ IF srn_no \in DOMAIN edit_params /\ edit_params[srn_no].center_note >= 12 * 512
       THEN /\ edit_params' = [edit_params EXCEPT ![srn_no].center_note = @ - 12 * 512]
            /\ SendParameterUpdate
       ELSE UNCHANGED <<edit_params, edit_queue>>
    /\ UNCHANGED <<edit_config, edit_regs>>
    /\ EditHandled("SRNCenterNoteOctaveDownClicked", srn_no, 0)

\* Message::SRNNoteEstimationClicked(srn_no), lines 731-743: note is what
\* center_note_estimation returns for the source (every analysed source has
\* its SourceInformation), stored as round(note * 512)
SRNNoteEstimationClicked(srn_no, note) ==
    /\ EditField(srn_no, [edit_params EXCEPT ![srn_no].center_note = note * 512])
    /\ EditHandled("SRNNoteEstimationClicked", srn_no, note)

\* the exported settings at hand: one that mutes source 0 and sets the
\* update period to 10, one that holds what the analysis stored
JsonFiles ==
    {[midi_output_configure |->
          [AnalyzedConfigure EXCEPT !.playback_parameter_update_period = 10],
      source_parameter |-> (0 :> [AnalyzedParameter EXCEPT !.mute = TRUE])],
     [midi_output_configure |-> AnalyzedConfigure,
      source_parameter |-> (1 :> AnalyzedParameter)]}

\* Message::FileOpened(Ok((_, LoadedFile::JSONFile(data)))) with data that
\* parses, lines 401-411: the configuration is replaced, the records of the
\* file are inserted; no message is sent
FileOpenedJson(json) ==
    /\ edit_config' = json.midi_output_configure
    /\ edit_params' = [k \in (DOMAIN edit_params) \cup (DOMAIN json.source_parameter) |->
                          IF k \in DOMAIN json.source_parameter
                          THEN json.source_parameter[k] ELSE edit_params[k]]
    /\ UNCHANGED <<edit_queue, edit_regs>>
    /\ EditHandled("FileOpened", 0, 0)

\* the state in which the messages arrive: an SPC file with two sources has
\* been opened and playback started, play_start having applied the
\* parameters to the MIDI instance (line 1277)
EditInit ==
    /\ edit_params = [k \in EditSources |-> AnalyzedParameter]
    /\ edit_config = AnalyzedConfigure
    /\ edit_queue = 0
    /\ edit_regs = WriteRegisters(FreshRegs, AnalyzedConfigure,
                                  [k \in EditSources |-> AnalyzedParameter])
    /\ edit_last = NoEdit
    /\ edit_count = 0

\* ------------------------------------------------------------------------
\* SpecEstimate: estimate_drum_and_note on one SourceInformation
\* ------------------------------------------------------------------------

\* an f32 by its kind; db is the value (in dB) of a finite one.  "min" is
\* f32::MIN.
NegInf == [kind |-> "neg_inf", db |-> 0]
NaN == [kind |-> "nan", db |-> 0]
F32Min == [kind |-> "min", db |-> 0]
Finite(db) == [kind |-> "finite", db |-> db]

\* the powers a bin may hold: 0, NaN, and the positive powers of -20 and 20 dB
PowerInputs == {[kind |-> "zero", db |-> 0], [kind |-> "nan", db |-> 0],
                [kind |-> "positive", db |-> -20], [kind |-> "positive", db |-> 20]}

\* every spectrum of up to MaxSpecLen bins (the empty one included), and the
\* spectra of ProbeLen bins that are 0 but for one bin
SpectrumInputs ==
    UNION {[1..n -> PowerInputs] : n \in 0..MaxSpecLen}
    \cup {[i \in 1..ProbeLen |-> IF i = b THEN [kind |-> "positive", db |-> 20]
                                 ELSE [kind |-> "zero", db |-> 0]] : b \in 2..ProbeLen}

\* line 131: 10.0 * f32::log10(*p)
LogPower(p) ==
    CASE p.kind = "zero" -> NegInf
      [] p.kind = "nan" -> NaN
      [] OTHER -> Finite(p.db)

\* the order of f32 values among -inf < f32::MIN < finite levels
Rank(x) == CASE x.kind = "neg_inf" -> 0 [] x.kind = "min" -> 1 [] OTHER -> 2

\* a > b on f32: false when either is NaN
Gt(a, b) ==
    /\ a.kind # "nan" /\ b.kind # "nan"
    /\ \/ Rank(a) > Rank(b)
       \/ a.kind = "finite" /\ b.kind = "finite" /\ a.db > b.db

\* line 148: log_spec[i] >= PITCH_PEAK_THRESHOLD * max, the threshold 0.8;
\* 0.8 * f32::MIN lies below every level
GeThreshold(x, max) ==
    /\ x.kind \in {"finite", "min"}
    /\ max.kind = "finite" => (x.kind = "finite" /\ 10 * x.db >= 8 * max.db)

\* lines 134-144: the fold from (usize::MIN, f32::MIN), a later bin replacing
\* the best only when it is greater.  Bins are numbered from 0.
RECURSIVE ArgMax(_, _, _)
ArgMax(log_spec, i, best) ==
    IF i >= Len(log_spec) THEN best
    ELSE ArgMax(log_spec, i + 1,
                IF Gt(log_spec[i + 1], best.max)
                THEN [argmax |-> i, max |-> log_spec[i + 1]] ELSE best)

\* line 147 running up to the last bin
PeakRangeToEnd(len) == 1..(len - 1)

\* line 147: for i in 1..(log_spec.len() - 1)
PeakRange(len) == 1..(len - 2)

\* 1000 * 2^(j/12), j = 0..11
SemitoneRatios == <<1000, 1059, 1122, 1189, 1260, 1335, 1414, 1498, 1587, 1682, 1782, 1888>>

\* lines 159-160 for pitch_bin >= 1: the integer part of
\* 12 * log2(((pitch_bin / (2 * len)) * 32000) / 440) + 69, which is at least
\* 69 as long as the peak is at 440 Hz or above (len <= 36)
NoteFloor(pitch_bin, len) ==
    LET AtMost(o, j) ==
            440 * Pow2(o) * SemitoneRatios[j + 1] * len <= 1000 * (SPC_SAMPLING_RATE \div 2) * pitch_bin
        reached == {69 + 12 * o + j : o \in 0..5, j \in 0..11}
                   \cap {n \in 69..140 : AtMost((n - 69) \div 12, (n - 69) % 12)}
    IN  CHOOSE n \in reached : \A m \in reached : m <= n

\* line 162: estimated_note.clamp(0.0, 127.0), on the integer part
Clamp(note) ==
    CASE note.kind = "nan" -> note
      [] note.kind = "neg_inf" -> Finite(0)
      [] note.db < 0 -> Finite(0)
      [] note.db > 127 -> Finite(127)
      [] OTHER -> note

\* fn center_note_estimation, lines 127-163.  With no bin, line 147 computes
\* 0 - 1 in usize: a build with overflow checks panics there, the others at
\* log_spec[1].
CenterNoteEstimation(power_spec) ==
    LET len == Len(power_spec)
        log_spec == [i \in 1..len |-> LogPower(power_spec[i])]
        best == ArgMax(log_spec, 0, [argmax |-> 0, max |-> F32Min])
        Candidate(i) == /\ GeThreshold(log_spec[i + 1], best.max)
                        /\ Gt(log_spec[i + 1], log_spec[i])
        peaks == {i \in PeakRange(len) :
                     Candidate(i) /\ i + 1 < len /\ Gt(log_spec[i + 1], log_spec[i + 2])}
        out_of_bounds == \E i \in PeakRange(len) : Candidate(i) /\ i + 1 >= len
        pitch_bin == IF peaks # {} THEN SetMin(peaks) ELSE best.argmax
        estimated_note == IF pitch_bin = 0 THEN NegInf
                          ELSE Finite(NoteFloor(pitch_bin, len))
    IN  IF len = 0 \/ out_of_bounds THEN [done |-> TRUE, panic |-> TRUE, note |-> NaN]
        ELSE [done |-> TRUE, panic |-> FALSE, note |-> Clamp(estimated_note)]

\* lines 50-51 with the start of the signal as the only end point
OneShotAtStart(info) == info.loop_start_sample = 0

\* lines 50-51: the loop point is at one end of the signal
OneShot(info) ==
    (info.loop_start_sample = 0) \/ (info.loop_start_sample = info.signal_len)

\* fn detect_drum, lines 37-124.  power_ratio, sfm, centroid and bandwidth
\* are what lines 53-100 evaluate to on the signal and the spectrum; a NaN
\* among them fails its comparison as a value below the threshold does.
DetectDrum(info) ==
    IF info.signal_len = 0 \/ Len(info.power_spectrum) = 0 THEN FALSE
    ELSE \/ OneShot(info)
         \/ info.power_ratio >= 24
         \/ info.sfm >= -10
         \/ (info.centroid >= 8000 /\ info.bandwidth >= 8000)

\* the SourceInformation at hand, with what its contents evaluate to
InfoInputs ==
    [signal_len : {0, 1, 16}, loop_start_sample : {0, 8, 16, 56},
     power_spectrum : SpectrumInputs,
     power_ratio : {23, 24}, sfm : {-11, -10},
     centroid : {7999, 8000}, bandwidth : {7999, 8000}]

NoNote == [done |-> FALSE, panic |-> FALSE, note |-> NaN]

EstParked ==
    /\ est_info = [signal_len |-> 0, loop_start_sample |-> 0, power_spectrum |-> <<>>,
                   power_ratio |-> 0, sfm |-> 0, centroid |-> 0, bandwidth |-> 0]
    /\ est_drum = "parked"
    /\ est_note = NoNote

EstInit ==
    /\ est_info \in InfoInputs
    /\ est_drum = "none"
    /\ est_note = NoNote

\* estimate_drum_and_note, lines 166-171, first element of the tuple
DetectDrumStep ==
    /\ est_drum = "none"
    /\ est_drum' = IF DetectDrum(est_info) THEN "drum" ELSE "not_drum"
    /\ UNCHANGED <<est_info, est_note>>

\* estimate_drum_and_note, lines 166-171, second element of the tuple
CenterNoteStep ==
    /\ est_drum \in {"drum", "not_drum"}
    /\ ~est_note.done
    /\ est_note' = CenterNoteEstimation(est_info.power_spectrum)
    /\ UNCHANGED <<est_info, est_drum>>

\* ------------------------------------------------------------------------
\* SpecExport: create_smf builds the track of one export
\* ------------------------------------------------------------------------

\* 64 kHz ticks in a minute: 60_000_000_000 ns / CLOCK_TICK_CYCLE_64KHZ_NANOSEC
TicksPerMinute64kHz == 60 * 64000

\* `config.ticks_per_quarter as i16`
AsI16(value) == IF value >= 32768 THEN value - 65536 ELSE value

\* line 1167: (60_000_000.0 / config.beats_per_minute) as u32, the tempo in
\* eighths of a beat
QuarterUsec(bpm8) == (8 * 60000000) \div bpm8

\* lines 1174-1175 with the tempo as it is stored
TicksPerMinutesExact8(config) == config.bpm8 * config.ticks_per_quarter

\* lines 1174-1175: (config.beats_per_minute as u64) * (config.ticks_per_quarter
\* as u64), here times 8; the cast drops the fraction of the tempo
TicksPerMinutes8(config) == 8 * (config.bpm8 \div 8) * config.ticks_per_quarter

\* lines 1190-1191: (total_elapsed_time_nanosec * ticks_per_minutes) /
\* 60_000_000_000 - total_ticks, numerator and denominator divided by the
\* 15625 ns of a tick
DeltaTicks(elapsed, config, total_ticks) ==
    (elapsed * TicksPerMinutes8(config)) \div (8 * TicksPerMinute64kHz) - total_ticks

\* the configurations exported: tempi 30.875 and 120, in eighths; the
\* duration in 64 kHz ticks
ExportConfigs ==
    [bpm8 : {247, 960}, ticks_per_quarter : {24, 96}, duration : {5300, 10500}]

ExpParked ==
    /\ exp_config = [bpm8 |-> DefaultBpm, ticks_per_quarter |-> 480, duration |-> 0]
    /\ exp_state = "parked"
    /\ exp_smf = [division |-> 0, events |-> <<>>]
    /\ exp_elapsed = 0
    /\ exp_total_ticks = 0

ExpInit ==
    /\ exp_config \in ExportConfigs
    /\ exp_state = "idle"
    /\ exp_smf = [division |-> 0, events |-> <<>>]
    /\ exp_elapsed = 0
    /\ exp_total_ticks = 0

\* create_smf, lines 1142-1180: the SMF with its division and the tempo
\* meta-event, the counters at 0
CreateSmf ==
    /\ exp_state = "idle"
    /\ exp_state' = "run"
    /\ exp_smf' = [division |-> AsI16(exp_config.ticks_per_quarter),
                   events |-> <<[vtime |-> 0, kind |-> "tempo",
                                 data |-> QuarterUsec(exp_config.bpm8), at |-> 0]>>]
    /\ exp_elapsed' = 0
    /\ exp_total_ticks' = 0
    /\ UNCHANGED exp_config

\* the while loop of lines 1181-1205: `silent` iterations in which
\* clock_tick_64k_hz returns None, then one in which it returns `messages`
\* messages.  `at` records the tick that produced an event.
CreateSmfTick(silent, messages) ==
    /\ exp_state = "run"
    /\ exp_elapsed + silent < exp_config.duration
    /\ Len(exp_smf.events) + messages <= 1 + MaxSmfMessages
    /\ LET elapsed == exp_elapsed + silent + 1
           ticks == DeltaTicks(elapsed, exp_config, exp_total_ticks)
       IN  /\ exp_elapsed' = elapsed
           /\ exp_total_ticks' = exp_total_ticks + ticks
           /\ exp_smf' = [exp_smf EXCEPT !.events =
                  @ \o [i \in 1..messages |->
                           [vtime |-> IF i = 1 THEN ticks ELSE 0, kind |-> "midi",
                            data |-> 0, at |-> elapsed]]]
    /\ UNCHANGED <<exp_config, exp_state>>

\* the rest of the loop yields no message: the loop ends when the elapsed
\* time has reached the duration, and create_smf returns
CreateSmfReturn ==
    /\ exp_state = "run"
    /\ exp_state' = "done"
    /\ exp_elapsed' = IF exp_elapsed < exp_config.duration
                      THEN exp_config.duration ELSE exp_elapsed
    /\ UNCHANGED <<exp_config, exp_smf, exp_total_ticks>>

\* ------------------------------------------------------------------------
\* SpecSoundOff: what stop and the global MIDI mute send on the MIDI output
\* connection, in the App of lib.rs and in the App of main.rs
\* ------------------------------------------------------------------------

\* a message of the playback closure, and the all-sound-off of a channel:
\* [MIDIMSG_MODE | ch, MIDIMSG_MODE_ALL_SOUND_OFF, 0]
PlaybackMessage == [kind |-> "playback", ch |-> 0]
AllSoundOff(ch) == [kind |-> "all_sound_off", ch |-> ch]

\* the channels of the loop: `for ch in 0..16` (lib.rs 1467), `for ch in
\* 0..15` (main.rs 1270)
AllSoundOffChannels(app) == IF app = "lib" THEN 0..15 ELSE 0..14

\* App::stop_midi_all_sound (lib.rs 1463-1473), the loop of main.rs
\* 1266-1275: nothing without a connection
StopMidiAllSound(app, sink) ==
    IF aso_conn
    THEN LET chs == AllSoundOffChannels(app)
         IN  sink \o [i \in 1..Cardinality(chs) |-> AllSoundOff(i - 1)]
    ELSE sink

\* App::stream_play_stop (lib.rs 1488-1496, main.rs 1260-1277) inside
\* `.expect("Failed to stop play")`: pause_ok is the answer of stream.pause()
StreamPlayStop(msg, pause_ok) ==
    /\ aso_playing' = IF aso_stream THEN FALSE ELSE aso_playing
    /\ aso_stream' = IF aso_stream /\ pause_ok THEN FALSE ELSE aso_stream
    /\ aso_sink' = IF aso_stream /\ ~pause_ok THEN aso_sink
                   ELSE StopMidiAllSound(aso_app, aso_sink)
    /\ aso_last' = [msg |-> msg, kind |-> "stop", from |-> Len(aso_sink),
                    panicked |-> aso_stream /\ ~pause_ok]

AsoHandled ==
    /\ ~aso_last.panicked
    /\ aso_count < MaxStops
    /\ aso_count' = aso_count + 1

\* Message::ReceivedPlayStartRequest (lib.rs 488-498, main.rs 505-515): stop
\* when playing; else play_start, which needs the connection and stores the
\* stream
AsoReceivedPlayStartRequest(pause_ok) ==
    /\ AsoHandled
    /\ IF aso_playing
       THEN StreamPlayStop("ReceivedPlayStartRequest", pause_ok)
       ELSE /\ aso_stream' = IF aso_conn THEN TRUE ELSE aso_stream
            /\ aso_playing' = aso_conn
            /\ aso_last' = [msg |-> "ReceivedPlayStartRequest", kind |-> "start",
                            from |-> Len(aso_sink), panicked |-> FALSE]
            /\ UNCHANGED aso_sink
    /\ UNCHANGED <<aso_app, aso_conn>>

\* Message::ReceivedPlayStopRequest (lib.rs 499-520, main.rs 516-535)
AsoReceivedPlayStopRequest(pause_ok) ==
    /\ AsoHandled
    /\ IF aso_playing
       THEN StreamPlayStop("ReceivedPlayStopRequest", pause_ok)
       ELSE /\ aso_last' = [msg |-> "ReceivedPlayStopRequest", kind |-> "none",
                            from |-> Len(aso_sink), panicked |-> FALSE]
            /\ UNCHANGED <<aso_stream, aso_playing, aso_sink>>
    /\ UNCHANGED <<aso_app, aso_conn>>

\* Message::MIDIMuteFlagToggled(flag): lib.rs 536-554 stops all sound when
\* the flag is set, main.rs 547-556 stores the flag
AsoMIDIMuteFlagToggled(flag) ==
    /\ AsoHandled
    /\ aso_sink' = IF flag /\ aso_app = "lib"
                   THEN StopMidiAllSound(aso_app, aso_sink) ELSE aso_sink
    /\ aso_last' = [msg |-> "MIDIMuteFlagToggled",
                    kind |-> IF flag THEN "mute_on" ELSE "none",
                    from |-> Len(aso_sink), panicked |-> FALSE]
    /\ UNCHANGED <<aso_app, aso_conn, aso_stream, aso_playing>>

\* the data callback of the playback stream sends a message of the MIDI
\* instance (lib.rs 1314-1320)
AsoAudioCallback ==
    /\ aso_stream /\ aso_playing /\ ~aso_last.panicked
    /\ Cardinality({i \in 1..Len(aso_sink) : aso_sink[i] = PlaybackMessage}) < MaxStops
    /\ aso_sink' = Append(aso_sink, PlaybackMessage)
    /\ UNCHANGED <<aso_app, aso_conn, aso_stream, aso_playing, aso_last, aso_count>>

NoStop == [msg |-> "", kind |-> "none", from |-> 0, panicked |-> FALSE]

AsoParked ==
    /\ aso_app = "lib"
    /\ aso_conn = FALSE
    /\ aso_stream = FALSE
    /\ aso_playing = FALSE
    /\ aso_sink = <<>>
    /\ aso_last = [NoStop EXCEPT !.msg = "parked"]
    /\ aso_count = 0

AsoInit ==
    /\ aso_app \in {"lib", "main"}
    /\ aso_conn \in BOOLEAN
    /\ aso_stream = FALSE
    /\ aso_playing = FALSE
    /\ aso_sink = <<>>
    /\ aso_last = NoStop
    /\ aso_count = 0

\* ------------------------------------------------------------------------
\* SpecForward: the MIDI messages from clock_tick_64k_hz to the MIDI output
\* port (playback) and to the exported track (create_smf), and the byte
\* counter of the playback path
\* ------------------------------------------------------------------------

\* fw_local outside a data callback
NoCallback == -1

\* a message of a batch: a fixed array of bytes of which the first `length`
\* count.  The bytes here name the tick and the place in the batch.
Message(tick, i, length) == [data |-> <<144 + i, tick, 100>>, length |-> length]

\* the batches a tick can yield: one message of 3 bytes, or a message of 2
\* bytes followed by one of 3
BatchesOf(tick) ==
    {<<Message(tick, 1, 3)>>, <<Message(tick, 1, 2), Message(tick, 2, 3)>>}

\* &msg.data[..msg.length]
DataSlice(msg) == SubSeq(msg.data, 1, msg.length)

\* the loop of lines 1316-1320 on the connection: conn_out.send of each slice
SendBatch(port, msgs) == ForwardMessages(port, [i \in 1..Len(msgs) |-> DataSlice(msgs[i])])

RECURSIVE SumLen(_)
SumLen(strings) ==
    IF strings = <<>> THEN 0 ELSE Len(Head(strings)) + SumLen(Tail(strings))

\* the loop of lines 1316-1320 on the counter: midi_bytes += msg.length
CountBatch(midi_bytes, msgs) ==
    midi_bytes + SumLen([i \in 1..Len(msgs) |-> DataSlice(msgs[i])])

\* create_smf, lines 1193-1201: one TrackEvent per message, pushed in the
\* order of the batch
PushEvents(track, msgs) == track \o [i \in 1..Len(msgs) |-> DataSlice(msgs[i])]

FwParked ==
    /\ fw_produced = <<>>
    /\ fw_port = <<>>
    /\ fw_exported = <<>>
    /\ fw_track = <<>>
    /\ fw_counter = 0
    /\ fw_local = NoCallback
    /\ fw_reset_at = -1

\* playback has started after a stop: nothing sent, the counter at 0
FwInit ==
    /\ fw_produced = <<>>
    /\ fw_port = <<>>
    /\ fw_exported = <<>>
    /\ fw_track = <<>>
    /\ fw_counter = 0
    /\ fw_local = NoCallback
    /\ fw_reset_at = 0

\* the data callback begins, line 1291: midi_output_bytes.load
FwCallbackBegin ==
    /\ fw_local = NoCallback
    /\ fw_local' = fw_counter
    /\ UNCHANGED <<fw_produced, fw_port, fw_exported, fw_track, fw_counter, fw_reset_at>>

\* lines 1314-1321: a tick of the live MIDI instance yields a batch
FwCallbackTick(msgs) ==
    /\ fw_local # NoCallback
    /\ Len(fw_produced) < MaxBatches
    /\ fw_produced' = Append(fw_produced, msgs)
    /\ fw_port' = SendBatch(fw_port, msgs)
    /\ fw_local' = CountBatch(fw_local, msgs)
    /\ UNCHANGED <<fw_exported, fw_track, fw_counter, fw_reset_at>>

\* the data callback ends, line 1345: midi_output_bytes.store
FwCallbackEnd ==
    /\ fw_local # NoCallback
    /\ fw_counter' = fw_local
    /\ fw_local' = NoCallback
    /\ UNCHANGED <<fw_produced, fw_port, fw_exported, fw_track, fw_reset_at>>

\* Message::ReceivedPlayStopRequest, lines 499-520: the stream is paused and
\* dropped, then the counter is reset; playback may start again
FwReceivedPlayStopRequest ==
    /\ fw_local = NoCallback
    /\ fw_counter' = 0
    /\ fw_reset_at' = Len(fw_port)
    /\ UNCHANGED <<fw_produced, fw_port, fw_exported, fw_track, fw_local>>

\* Message::FileOpened with an SPC file, line 381: the counter is reset; the
\* stream, if it runs, is left running
FwFileOpened ==
    /\ fw_counter' = 0
    /\ fw_reset_at' = Len(fw_port)
    /\ UNCHANGED <<fw_produced, fw_port, fw_exported, fw_track, fw_local>>

\* create_smf, lines 1188-1204: a tick of the export's instance yields a batch
FwCreateSmfTick(msgs) ==
    /\ Len(fw_exported) < MaxBatches
    /\ fw_exported' = Append(fw_exported, msgs)
    /\ fw_track' = PushEvents(fw_track, msgs)
    /\ UNCHANGED <<fw_produced, fw_port, fw_counter, fw_local, fw_reset_at>>

\* ------------------------------------------------------------------------
\* SpecPreview: Message::ReceivedMIDIPreviewRequest and what
\* preview_midi_sound sends
\* ------------------------------------------------------------------------

MIDIMSG_NOTE_ON == 144
MIDIMSG_NOTE_OFF == 128
MIDIMSG_PROGRAM_CHANGE == 192
MIDI_PREVIEW_CHANNEL == 0

\* the source the map holds, and the records the edit messages can leave it
\* with: a melodic and a percussion program, two center notes (0 and 60.5 in
\* 1/512 of a note), two velocities
PreviewSource == 0
PreviewParameters ==
    [program : {5, 130}, center_note : {0, 60 * 512 + 256}, noteon_velocity : {1, 100}]

\* preview_midi_sound, lines 1501-1505: the locals read from the record
PreviewLocals(param) ==
    [program |-> param.program, velocity |-> param.noteon_velocity,
     note |-> param.center_note \div 512]

\* the note-on of a percussion program sent on the preview channel
NoteOnPreviewChannel(l) ==
    IF l.program < 128
    THEN <<<<MIDIMSG_PROGRAM_CHANGE + MIDI_PREVIEW_CHANNEL, l.program>>,
           <<MIDIMSG_NOTE_ON + MIDI_PREVIEW_CHANNEL, l.note, l.velocity>>>>
    ELSE <<<<MIDIMSG_NOTE_ON + MIDI_PREVIEW_CHANNEL, l.program - 128, l.velocity>>>>

\* lines 1515-1529: what is sent before the sleep
NoteOn(l) ==
    IF l.program < 128
    THEN <<<<MIDIMSG_PROGRAM_CHANGE + MIDI_PREVIEW_CHANNEL, l.program>>,
           <<MIDIMSG_NOTE_ON + MIDI_PREVIEW_CHANNEL, l.note, l.velocity>>>>
    ELSE <<<<MIDIMSG_NOTE_ON + 9, l.program - 128, l.velocity>>>>

\* lines 1534-1544: what is sent after the sleep
NoteOff(l) ==
    IF l.program < 128
    THEN <<<<MIDIMSG_NOTE_OFF + MIDI_PREVIEW_CHANNEL, l.note, 0>>>>
    ELSE <<<<MIDIMSG_NOTE_OFF + 9, l.program - 128, 0>>>>

NoPreview == [program |-> -1, velocity |-> 0, note |-> 0]

PvParked ==
    /\ pv_params = <<>>
    /\ pv_conn = FALSE
    /\ pv_sink = <<>>
    /\ pv_frame = NoPreview
    /\ pv_log = <<>>

\* an SPC file with one source is open; the MIDI port may or may not be
\* connected
PvInit ==
    /\ pv_params \in [{PreviewSource} -> PreviewParameters]
    /\ pv_conn \in BOOLEAN
    /\ pv_sink = <<>>
    /\ pv_frame = NoPreview
    /\ pv_log = <<>>

\* ProgramSelected, CenterNoteIntChanged, NoteOnVelocityChanged and the other
\* edit messages (lines 564-743), handled by the thread that runs
\* preview_midi_sound: none is handled while a preview sleeps
PvParameterEdited(param) ==
    /\ pv_frame = NoPreview
    /\ pv_params' = [pv_params EXCEPT ![PreviewSource] = param]
    /\ UNCHANGED <<pv_conn, pv_sink, pv_frame, pv_log>>

\* preview_midi_sound up to the sleep, lines 1499-1532: without a connection
\* it returns at once
PreviewMidiSoundBegin ==
    /\ pv_frame = NoPreview
    /\ Len(pv_log) < MaxPreviews
    /\ pv_log' = Append(pv_log, [param |-> pv_params[PreviewSource], at |-> Len(pv_sink),
                                 conn |-> pv_conn])
    /\ IF pv_conn
       THEN LET l == PreviewLocals(pv_params[PreviewSource])
            IN  /\ pv_sink' = pv_sink \o NoteOn(l)
                /\ pv_frame' = l
       ELSE UNCHANGED <<pv_sink, pv_frame>>
    /\ UNCHANGED <<pv_params, pv_conn>>

\* preview_midi_sound from the end of the sleep, lines 1533-1545
PreviewMidiSoundEnd ==
    /\ pv_frame # NoPreview
    /\ pv_sink' = pv_sink \o NoteOff(pv_frame)
    /\ pv_frame' = NoPreview
    /\ UNCHANGED <<pv_params, pv_conn, pv_log>>

\* ------------------------------------------------------------------------
\* SpecDuration: how long the loops of analyze_sources and bpm_estimation run
\* ------------------------------------------------------------------------

DEFAULT_OUTPUT_DURATION_MSEC == 60 * 1000

\* header.duration of the files opened, in seconds
HeaderDurations == {0, 3, 999}
NoHeader == -1

\* a number below 2^31 as a u64 in four 16-bit limbs, most significant first
Limbs64(n) == <<0, 0, n \div 65536, n % 65536>>

\* the values Message::MIDIOutputDurationChanged stores, among them 0, the
\* last one whose seconds fit the tick count of the analysis and the first
\* whose seconds do not, the last one whose nanoseconds fit a u64 and the
\* first whose nanoseconds do not, and u64::MAX
DurationInputs ==
    {Limbs64(0), Limbs64(499), Limbs64(500), Limbs64(60000),
     Limbs64(67108000), Limbs64(67109000), <<0, 4294, 63392, 46573>>,
     <<0, 4294, 63392, 46574>>, <<65535, 65535, 65535, 65535>>}

\* the values Message::MIDIOutputSPC700ClockUpFactorChanged stores: 0, two
\* the combo box offers, 2^28 - 1, 2^28 and u32::MAX
FactorInputs ==
    {<<0, 0>>, <<0, 1>>, <<0, 32>>, <<4095, 65535>>, <<4096, 0>>, <<65535, 65535>>}

\* Message::ReceivedSRNReanalyzeRequest, lines 905-907:
\* (output_duration_msec as f32 / 1000.0).round() as u32, a u32 in two limbs.
\* The cast to u32 saturates, which every value from 1000 * 2^32 on does; a
\* value below 2^32 is divided limb by limb (2^16 = 65 * 1000 + 536) and the
\* half is rounded away from zero.  Values between are not among the inputs,
\* and the inputs are far enough from a half second for the f32 arithmetic
\* to give the same second.
RoundSeconds(msec) ==
    IF msec[1] > 0 \/ msec[2] >= 1000 THEN <<65535, 65535>>
    ELSE LET sec == 65 * msec[3] + (536 * msec[3] + msec[4] + 500) \div 1000
         IN  <<sec \div 65536, sec % 65536>>

\* analyze_sources line 1042 and bpm_estimation line 993:
\* analyze_duration_sec * 64000 in u32.  64000 = 125 * 2^9, so the product is
\* counted in units of 512 ticks: its low 23 bits are what a u32 keeps, the
\* rest is what it loses.
Mul64000(sec) ==
    LET a == sec[1] * 125
        low == (a % 128) * 65536 + sec[2] * 125
    IN  [lost |-> a \div 128 + low \div 8388608, kept |-> low % 8388608]

\* the loop `while tick64khz_count < analyze_duration_64khz_ticks`, lines
\* 1050-1081 and 1003-1027: the count goes up by one per tick, so the loop
\* ends when it is the bound.  A debug build panics on the overflow of the
\* multiplication, a release build goes on with the low 32 bits
AnalysisLoop(profile, who, sec) ==
    LET p == Mul64000(sec)
    IN  [who |-> who, sec |-> sec,
         panic |-> profile = "debug" /\ p.lost > 0,
         ticks512 |-> IF profile = "debug" /\ p.lost > 0 THEN 0 ELSE p.kept]

NoLoop == [who |-> "none", sec |-> <<0, 0>>, panic |-> FALSE, ticks512 |-> 0]

CLOCK_TICK_CYCLE_64KHZ_NANOSEC == 15625

\* x * m + carry for a number x in 16-bit limbs (most significant first) and
\* m, carry below 2^15: one limb more than x, the first being what a type of
\* x's width loses
RECURSIVE MulCarry(_, _, _)
MulCarry(x, m, carry) ==
    IF x = <<>> THEN <<carry>>
    ELSE LET n == Len(x)
             p == x[n] * m + carry
         IN  Append(MulCarry(SubSeq(x, 1, n - 1), m, p \div 65536), p % 65536)

\* quotient and remainder of (rem * 2^(16 * Len(x)) + x) by d, d below 2^15
RECURSIVE DivRem(_, _, _)
DivRem(x, d, rem) ==
    IF x = <<>> THEN [q |-> <<>>, r |-> rem]
    ELSE LET cur == rem * 65536 + x[1]
             rest == DivRem(Tail(x), d, cur % d)
         IN  [q |-> <<cur \div d>> \o rest.q, r |-> rest.r]

\* create_smf line 1176: spc_clockup_factor * CLOCK_TICK_CYCLE_64KHZ in u32
CycleThreshold(factor) ==
    LET p == MulCarry(factor, CLOCK_TICK_CYCLE_64KHZ, 0)
    IN  [lost |-> p[1] > 0, kept |-> Tail(p)]

\* create_smf line 1180: output_duration_msec * 1000_000 in u64, taken as
\* two multiplications by 1000 that each keep the low 64 bits
DurationNanosec(msec) ==
    LET p1 == MulCarry(msec, 1000, 0)
        p2 == MulCarry(Tail(p1), 1000, 0)
    IN  [lost |-> p1[1] > 0 \/ p2[1] > 0, kept |-> Tail(p2)]

\* create_smf lines 1180-1187: total_elapsed_time_nanosec goes up by
\* CLOCK_TICK_CYCLE_64KHZ_NANOSEC per tick from 0 while it is below the
\* bound, so the ticks fired are the bound divided by it, rounded up (five
\* limbs)
TicksUntil(nanosec) ==
    LET d == DivRem(nanosec, CLOCK_TICK_CYCLE_64KHZ_NANOSEC, 0)
    IN  MulCarry(d.q, 1, IF d.r > 0 THEN 1 ELSE 0)

\* create_smf, lines 1173-1205: the threshold of the inner loop and the ticks
\* of the outer one.  A debug build panics on either overflow, a release
\* build goes on with the low bits
CreateSmfLoop(profile, msec, factor) ==
    LET cycle == CycleThreshold(factor)
        nanosec == DurationNanosec(msec)
        panic == profile = "debug" /\ (cycle.lost \/ nanosec.lost)
    IN  [msec |-> msec, factor |-> factor, panic |-> panic,
         spc_64k_hz_cycle |-> cycle.kept,
         ticks |-> IF panic THEN <<0, 0, 0, 0, 0>> ELSE TicksUntil(nanosec.kept)]

NoSmf ==
    [msec |-> <<0, 0, 0, 0>>, factor |-> <<0, 0>>, panic |-> TRUE,
     spc_64k_hz_cycle |-> <<0, 0>>, ticks |-> <<>>]

\* a panic ends the process
DurAlive == ~dur_loop.panic /\ (dur_smf = NoSmf \/ ~dur_smf.panic)

DurParked ==
    /\ dur_build = "debug"
    /\ dur_header = NoHeader
    /\ dur_msec = Limbs64(DEFAULT_OUTPUT_DURATION_MSEC)
    /\ dur_loop = NoLoop
    /\ dur_factor = <<0, 1>>
    /\ dur_smf = NoSmf

DurInit ==
    /\ dur_build \in {"debug", "release"}
    /\ dur_header = NoHeader
    /\ dur_msec = Limbs64(DEFAULT_OUTPUT_DURATION_MSEC)
    /\ dur_loop = NoLoop
    /\ dur_factor = <<0, 1>>
    /\ dur_smf = NoSmf

\* Message::FileOpened, lines 355-366 and 392-397
DurFileOpened(duration) ==
    /\ DurAlive
    /\ dur_header' = duration
    /\ dur_loop' = AnalysisLoop(dur_build, "analyze_sources",
                       IF duration > 0 THEN <<0, duration>>
                       ELSE <<0, DEFAULT_ANALYZING_TIME_SEC>>)
    /\ dur_msec' = IF duration > 0 THEN Limbs64(duration * 1000)
                   ELSE Limbs64(DEFAULT_OUTPUT_DURATION_MSEC)
    /\ UNCHANGED <<dur_build, dur_factor, dur_smf>>

\* Message::MIDIOutputDurationChanged, lines 812-815
DurMIDIOutputDurationChanged(msec) ==
    /\ DurAlive
    /\ dur_msec' = msec
    /\ UNCHANGED <<dur_build, dur_header, dur_loop, dur_factor, dur_smf>>

\* Message::ReceivedSRNReanalyzeRequest, lines 904-918
DurReceivedSRNReanalyzeRequest ==
    /\ DurAlive
    /\ dur_header # NoHeader
    /\ dur_loop' = AnalysisLoop(dur_build, "analyze_sources", RoundSeconds(dur_msec))
    /\ UNCHANGED <<dur_build, dur_header, dur_msec, dur_factor, dur_smf>>

\* Message::ReceivedBpmAnalyzeRequest, lines 878-889
DurReceivedBpmAnalyzeRequest ==
    /\ DurAlive
    /\ dur_header # NoHeader
    /\ dur_loop' = AnalysisLoop(dur_build, "bpm_estimation", <<0, dur_header>>)
    /\ UNCHANGED <<dur_build, dur_header, dur_msec, dur_factor, dur_smf>>

\* Message::MIDIOutputSPC700ClockUpFactorChanged, lines 816-819
DurMIDIOutputSPC700ClockUpFactorChanged(factor) ==
    /\ DurAlive
    /\ dur_factor' = factor
    /\ UNCHANGED <<dur_build, dur_header, dur_msec, dur_loop, dur_smf>>

\* Message::SaveSMF, lines 424-437: create_smf when a file is loaded
DurSaveSMF ==
    /\ DurAlive
    /\ dur_header # NoHeader
    /\ dur_smf' = CreateSmfLoop(dur_build, dur_msec, dur_factor)
    /\ UNCHANGED <<dur_build, dur_header, dur_msec, dur_loop, dur_factor>>

\* ------------------------------------------------------------------------
\* SpecCallback: the emulation loop of the data callback of play_start
\* ------------------------------------------------------------------------

\* the PCM instance puts out a sample pair at 32 kHz: at every second of
\* the 64 kHz ticks
TicksPerSample == 64000 \div SPC_SAMPLING_RATE

\* a push that takes no free frame
PushKeepsFree(free) == free

\* prod.push_interleaved of one frame: one free frame less
PushInterleaved(free) == free - 1

CbParked ==
    /\ cb_pc = "idle"
    /\ cb_locked = FALSE
    /\ cb_free = ChannelFrames
    /\ cb_nsamples = 0
    /\ cb_cycle_count = 0
    /\ cb_phase = 0
    /\ cb_start = 0
    /\ cb_steps = 0

\* play_start, lines 1284-1286 and 1250-1256: the closure is built with
\* cycle_count = 0 and an empty channel
CbInit == CbParked

\* the data callback, lines 1289-1299: the guards are taken, nsamples is read
CbBegin ==
    /\ cb_pc = "idle"
    /\ cb_pc' = "loop"
    /\ cb_locked' = TRUE
    /\ cb_nsamples' = cb_free
    /\ cb_start' = cb_free
    /\ cb_steps' = 0
    /\ UNCHANGED <<cb_free, cb_cycle_count, cb_phase>>

\* lines 1300-1323: one iteration of `while nsamples > BUFFER_SIZE / 2`
CbStep(cycle) ==
    LET ticks == cb_cycle_count + cycle >= CLOCK_TICK_CYCLE_64KHZ
        pcm == ticks /\ cb_phase + 1 = TicksPerSample
    IN  /\ cb_pc = "loop"
        /\ cb_nsamples > BufferFrames \div 2
        /\ cb_steps' = cb_steps + 1
        /\ cb_cycle_count' = IF ticks THEN cb_cycle_count + cycle - CLOCK_TICK_CYCLE_64KHZ
                             ELSE cb_cycle_count + cycle
        /\ cb_phase' = IF ticks THEN (cb_phase + 1) % TicksPerSample ELSE cb_phase
        /\ cb_free' = IF pcm THEN PushInterleaved(cb_free) ELSE cb_free
        /\ cb_nsamples' = IF pcm THEN PushInterleaved(cb_free) ELSE cb_nsamples
        /\ UNCHANGED <<cb_pc, cb_locked, cb_start>>

\* lines 1325-1346: the loop has ended; cons.read_interleaved takes `frames`
\* frames out of the channel, the counters are stored, the guards dropped
CbReturn(frames) ==
    /\ cb_pc = "loop"
    /\ cb_nsamples <= BufferFrames \div 2
    /\ cb_free + frames <= ChannelFrames
    /\ cb_free' = cb_free + frames
    /\ cb_pc' = "idle"
    /\ cb_locked' = FALSE
    /\ UNCHANGED <<cb_nsamples, cb_cycle_count, cb_phase, cb_start, cb_steps>>

\* ------------------------------------------------------------------------
\* Specifications
\* ------------------------------------------------------------------------

TickInit == TickParked /\ LockParked /\ AppParked /\ VoiceParked /\ BpmParked /\ AnalyzeParked /\ EditParked /\ EstParked /\ ExpParked /\ AsoParked /\ FwParked /\ PvParked /\ DurParked /\ CbParked

\* the variables of the other specifications stay as they are
TickFrame == UNCHANGED <<lockVars, appVars, voiceVars, bpmVars, analyzeVars, editVars, estVars, expVars, asoVars, fwVars, pvVars, durVars, cbVars>>

TickNext ==
    \/ (\E n \in 0..MaxLoopTicks : AnalyzeStart(n)) /\ TickFrame
    \/ (\E c \in StepCycles : AnalyzeIter(c)) /\ TickFrame
    \/ (\E n \in 0..MaxLoopTicks : BpmStart(n)) /\ TickFrame
    \/ (\E c \in StepCycles : BpmIter(c)) /\ TickFrame
    \/ (\E f \in 1..2 : ClockUpFactorChanged(f)) /\ TickFrame
    \/ (\E n \in 0..MaxLoopTicks : SmfStart(n)) /\ TickFrame
    \/ (\E c \in StepCycles : SmfStep(c)) /\ TickFrame
    \/ (SmfTick) /\ TickFrame
    \/ (SmfEnd) /\ TickFrame
    \/ (PlayStart) /\ TickFrame
    \/ (\E c \in StepCycles : PlayIter(c)) /\ TickFrame
    \/ (PlayPause) /\ TickFrame
    \/ (PlayStop) /\ TickFrame

SpecTick == TickInit /\ [][TickNext]_vars

LockInit == LockParked /\ TickParked /\ AppParked /\ VoiceParked /\ BpmParked /\ AnalyzeParked /\ EditParked /\ EstParked /\ ExpParked /\ AsoParked /\ FwParked /\ PvParked /\ DurParked /\ CbParked

\* the variables of the other specifications stay as they are
LockFrame == UNCHANGED <<tickVars, appVars, voiceVars, bpmVars, analyzeVars, editVars, estVars, expVars, asoVars, fwVars, pvVars, durVars, cbVars>>

LockNext ==
    \/ (AudioCallbackStart) /\ LockFrame
    \/ (AudioStep) /\ LockFrame
    \/ (\E flag \in BOOLEAN : UiMuteChannel(flag)) /\ LockFrame
    \/ (UiSoloChannel) /\ LockFrame
    \/ (UiSPCMuteFlagToggled) /\ LockFrame
    \/ (\E flag \in BOOLEAN : UiMIDIMuteFlagToggled(flag)) /\ LockFrame
    \/ (UiTick) /\ LockFrame
    \/ (UiSourceParameterUpdate) /\ LockFrame
    \/ (UiMIDIPreviewRequest) /\ LockFrame
    \/ (UiStep) /\ LockFrame

SpecLock == LockInit /\ [][LockNext]_vars

\* the outcomes the audio host can answer a start attempt with
Outcomes == {"ok", "build_err", "play_err"}

AppFrame == UNCHANGED <<tickVars, lockVars, voiceVars, bpmVars, analyzeVars, editVars, estVars, expVars, asoVars, fwVars, pvVars, durVars, cbVars>>

Next ==
    \/ (\E f \in Files, in_flight \in BOOLEAN : FileOpened(f, in_flight)) /\ AppFrame
    \/ (\E o \in Outcomes : ReceivedPlayStartRequest(o)) /\ AppFrame
    \/ ReceivedPlayStopRequest /\ AppFrame
    \/ (\E srn_no \in 0..NumFiles, o \in Outcomes :
            ReceivedSRNPlayStartRequest(srn_no, o)) /\ AppFrame
    \/ (\E flag \in BOOLEAN : SRNPlayLoopFlagToggled(flag)) /\ AppFrame
    \/ (\E n \in 0..1, bytes \in {0, 1} : AudioCallback(n, bytes)) /\ AppFrame
    \/ SrnCallbackEnd /\ AppFrame
    \/ (\E found \in BOOLEAN : AudioOutputDeviceSelected(found)) /\ AppFrame
    \/ (\E found \in BOOLEAN : MIDIOutputPortSelected(found)) /\ AppFrame
    \/ (\E ch \in MuteChannels, flag \in BOOLEAN : MuteChannel(ch, flag)) /\ AppFrame
    \/ (\E srn_no \in 0..NumFiles, flag \in BOOLEAN :
            SRNMuteFlagToggled(srn_no, flag)) /\ AppFrame
    \/ ReceivedSourceParameterUpdate /\ AppFrame

Init == AppInit /\ TickParked /\ LockParked /\ VoiceParked /\ BpmParked /\ AnalyzeParked /\ EditParked /\ EstParked /\ ExpParked /\ AsoParked /\ FwParked /\ PvParked /\ DurParked /\ CbParked

Spec == Init /\ [][Next]_vars

\* the App with the four mute messages, on two of the eight voices
MuteNext ==
    \/ (\E f \in Files : FileOpened(f, FALSE)) /\ AppFrame
    \/ (\E o \in Outcomes : ReceivedPlayStartRequest(o)) /\ AppFrame
    \/ ReceivedPlayStopRequest /\ AppFrame
    \/ (\E ch \in 0..1, flag \in BOOLEAN : MuteChannel(ch, flag)) /\ AppFrame
    \/ (\E ch \in 0..1 : SoloChannel(ch)) /\ AppFrame
    \/ (\E flag \in BOOLEAN : SPCMuteFlagToggled(flag)) /\ AppFrame
    \/ (\E flag \in BOOLEAN : MIDIMuteFlagToggled(flag)) /\ AppFrame

SpecMute == Init /\ [][MuteNext]_vars

OpenNext ==
    \/ (\E f \in Files, in_flight \in BOOLEAN : FileOpened(f, in_flight)) /\ AppFrame
    \/ (\E result \in FailedResults : FileOpenedFailed(result)) /\ AppFrame
    \/ (\E o \in Outcomes : ReceivedPlayStartRequest(o)) /\ AppFrame
    \/ ReceivedPlayStopRequest /\ AppFrame
    \/ (\E n \in 0..1, bytes \in {0, 1} : AudioCallback(n, bytes)) /\ AppFrame
    \/ (\E srn_no \in 0..NumFiles, flag \in BOOLEAN :
            SRNMuteFlagToggled(srn_no, flag)) /\ AppFrame
    \/ ReceivedSourceParameterUpdate /\ AppFrame

SpecOpen == Init /\ [][OpenNext]_vars

VoiceFrame == UNCHANGED <<tickVars, lockVars, bpmVars, analyzeVars, editVars, estVars, expVars, asoVars, fwVars, pvVars, durVars, cbVars>>

VoiceNext ==
    \/ (\E ev \in KeyEvents : KeyWrite(ev)) /\ VoiceFrame
    \/ VoiceTick /\ VoiceFrame
    \/ (\E srn_no \in 0..NumFiles, flag \in BOOLEAN :
            SRNMuteFlagToggled(srn_no, flag)) /\ UNCHANGED voiceVars /\ VoiceFrame
    \/ ReceivedSourceParameterUpdate /\ UNCHANGED voiceVars /\ VoiceFrame

VoiceInit == VoiceAppInit /\ VoiceParked /\ TickParked /\ LockParked /\ BpmParked /\ AnalyzeParked /\ EditParked /\ EstParked /\ ExpParked /\ AsoParked /\ FwParked /\ PvParked /\ DurParked /\ CbParked

SpecVoice == VoiceInit /\ [][VoiceNext]_vars

BpmFrame == UNCHANGED <<tickVars, lockVars, appVars, voiceVars, analyzeVars, editVars, estVars, expVars, asoVars, fwVars, pvVars, durVars, cbVars>>

BpmNext ==
    \/ (\E d \in 0..MaxDuration, peak_lags \in PeakLagSets :
            BpmFileOpened(d, peak_lags)) /\ BpmFrame
    \/ ReceivedBpmAnalyzeRequest /\ BpmFrame
    \/ (\E bpm16 \in BpmInputs : MIDIOutputBpmChanged(bpm16)) /\ BpmFrame

BpmInit == BpmParked /\ TickParked /\ LockParked /\ AppParked /\ VoiceParked /\ AnalyzeParked /\ EditParked /\ EstParked /\ ExpParked /\ AsoParked /\ FwParked /\ PvParked /\ DurParked /\ CbParked

SpecBpm == BpmInit /\ [][BpmNext]_vars

AnalyzeFrame == UNCHANGED <<tickVars, lockVars, appVars, voiceVars, bpmVars, editVars, estVars, expVars, asoVars, fwVars, pvVars, durVars, cbVars>>

AnalyzeNext ==
    \/ (\E r \in Runs, f \in DOMAIN Snapshots : RunFileOpened(r, f)) /\ AnalyzeFrame
    \/ (\E r \in Runs : ReceivedSRNReanalyzeRequest(r)) /\ AnalyzeFrame
    \/ (\E r \in Runs, d \in MinAnalyzeDuration..MaxDuration :
            MIDIOutputDurationChanged(r, d)) /\ AnalyzeFrame
    \/ (\E r \in Runs, srn_no \in 0..1, flag \in BOOLEAN :
            RunSRNMuteFlagToggled(r, srn_no, flag)) /\ AnalyzeFrame
    \/ (\E r \in Runs, json \in RunJsonFiles : RunFileOpenedJson(r, json)) /\ AnalyzeFrame

SpecAnalyzeInit ==
    AnalyzeInit /\ TickParked /\ LockParked /\ AppParked /\ VoiceParked /\ BpmParked /\ EditParked /\ EstParked /\ ExpParked /\ AsoParked /\ FwParked /\ PvParked /\ DurParked /\ CbParked

SpecAnalyze == SpecAnalyzeInit /\ [][AnalyzeNext]_vars

EditFrame == UNCHANGED <<tickVars, lockVars, appVars, voiceVars, bpmVars, analyzeVars, estVars, expVars, asoVars, fwVars, pvVars, durVars, cbVars>>

EditNext ==
    \/ (\E s \in EditTargets, f \in BOOLEAN : EditSRNMuteFlagToggled(s, f)) /\ EditFrame
    \/ (\E s \in EditTargets, p \in Programs : ProgramSelected(s, p)) /\ EditFrame
    \/ (\E s \in EditTargets, n \in NoteInputs : CenterNoteIntChanged(s, n)) /\ EditFrame
    \/ (\E s \in EditTargets, f \in FractionInputs : CenterNoteFractionChanged(s, f)) /\ EditFrame
    \/ (\E s \in EditTargets, v \in U8Inputs : NoteOnVelocityChanged(s, v)) /\ EditFrame
    \/ (\E s \in EditTargets, v \in U8Inputs : PitchBendWidthChanged(s, v)) /\ EditFrame
    \/ (\E s \in EditTargets, f \in BOOLEAN : EnablePitchBendFlagToggled(s, f)) /\ EditFrame
    \/ (\E s \in EditTargets, f \in BOOLEAN : AutoPanFlagToggled(s, f)) /\ EditFrame
    \/ (\E s \in EditTargets, v \in U8Inputs : FixedPanChanged(s, v)) /\ EditFrame
    \/ (\E s \in EditTargets, f \in BOOLEAN : AutoVolumeFlagToggled(s, f)) /\ EditFrame
    \/ (\E s \in EditTargets, v \in U8Inputs : FixedVolumeChanged(s, v)) /\ EditFrame
    \/ (\E s \in EditTargets, f \in BOOLEAN : EnvelopeAsExpressionFlagToggled(s, f)) /\ EditFrame
    \/ (\E s \in EditTargets, f \in BOOLEAN : EchoAsEffect1FlagToggled(s, f)) /\ EditFrame
    \/ (\E b \in Bpm32Inputs : EditMIDIOutputBpmChanged(b)) /\ EditFrame
    \/ (\E t \in U16Inputs : MIDIOutputTicksPerQuarterChanged(t)) /\ EditFrame
    \/ (\E p \in U8Inputs : MIDIOutputUpdatePeriodChanged(p)) /\ EditFrame
    \/ (\E d \in U64Inputs : EditMIDIOutputDurationChanged(d)) /\ EditFrame
    \/ (\E f \in 1..2 : MIDIOutputSPC700ClockUpFactorChanged(f)) /\ EditFrame
    \/ (\E s \in EditTargets : SRNCenterNoteOctaveUpClicked(s)) /\ EditFrame
    \/ (\E s \in EditTargets : SRNCenterNoteOctaveDownClicked(s)) /\ EditFrame
    \/ (\E s \in EditTargets, n \in {0, 127} : SRNNoteEstimationClicked(s, n)) /\ EditFrame
    \/ (\E json \in JsonFiles : FileOpenedJson(json)) /\ EditFrame
    \/ (EditReceivedSourceParameterUpdate) /\ EditFrame

SpecEditInit ==
    EditInit /\ TickParked /\ LockParked /\ AppParked /\ VoiceParked /\ BpmParked /\ AnalyzeParked /\ EstParked /\ ExpParked /\ AsoParked /\ FwParked /\ PvParked /\ DurParked /\ CbParked

SpecEdit == SpecEditInit /\ [][EditNext]_vars

EstFrame == UNCHANGED <<tickVars, lockVars, appVars, voiceVars, bpmVars, analyzeVars, editVars, expVars, asoVars, fwVars, pvVars, durVars, cbVars>>

EstNext ==
    \/ (DetectDrumStep) /\ EstFrame
    \/ (CenterNoteStep) /\ EstFrame

SpecEstimateInit ==
    EstInit /\ TickParked /\ LockParked /\ AppParked /\ VoiceParked /\ BpmParked /\ AnalyzeParked /\ EditParked /\ ExpParked /\ AsoParked /\ FwParked /\ PvParked /\ DurParked /\ CbParked

SpecEstimate == SpecEstimateInit /\ [][EstNext]_vars

ExpFrame == UNCHANGED <<tickVars, lockVars, appVars, voiceVars, bpmVars, analyzeVars, editVars, estVars, asoVars, fwVars, pvVars, durVars, cbVars>>

ExpNext ==
    \/ (CreateSmf) /\ ExpFrame
    \/ (\E silent \in {0, 1, 5199}, messages \in 1..2 : CreateSmfTick(silent, messages)) /\ ExpFrame
    \/ (CreateSmfReturn) /\ ExpFrame

SpecExportInit ==
    ExpInit /\ TickParked /\ LockParked /\ AppParked /\ VoiceParked /\ BpmParked /\ AnalyzeParked /\ EditParked /\ EstParked /\ AsoParked /\ FwParked /\ PvParked /\ DurParked /\ CbParked

SpecExport == SpecExportInit /\ [][ExpNext]_vars

AsoFrame == UNCHANGED <<tickVars, lockVars, appVars, voiceVars, bpmVars, analyzeVars, editVars, estVars, expVars, fwVars, pvVars, durVars, cbVars>>

AsoNext ==
    \/ (\E pause_ok \in BOOLEAN : AsoReceivedPlayStartRequest(pause_ok)) /\ AsoFrame
    \/ (\E pause_ok \in BOOLEAN : AsoReceivedPlayStopRequest(pause_ok)) /\ AsoFrame
    \/ (\E flag \in BOOLEAN : AsoMIDIMuteFlagToggled(flag)) /\ AsoFrame
    \/ (AsoAudioCallback) /\ AsoFrame

SpecSoundOffInit ==
    AsoInit /\ TickParked /\ LockParked /\ AppParked /\ VoiceParked /\ BpmParked /\ AnalyzeParked /\ EditParked /\ EstParked /\ ExpParked /\ FwParked /\ PvParked /\ DurParked /\ CbParked

SpecSoundOff == SpecSoundOffInit /\ [][AsoNext]_vars

FwFrame == UNCHANGED <<tickVars, lockVars, appVars, voiceVars, bpmVars, analyzeVars, editVars, estVars, expVars, asoVars, pvVars, durVars, cbVars>>

FwNext ==
    \/ (FwCallbackBegin) /\ FwFrame
    \/ (\E msgs \in BatchesOf(Len(fw_produced) + 1) : FwCallbackTick(msgs)) /\ FwFrame
    \/ (FwCallbackEnd) /\ FwFrame
    \/ (FwReceivedPlayStopRequest) /\ FwFrame
    \/ (FwFileOpened) /\ FwFrame
    \/ (\E msgs \in BatchesOf(Len(fw_exported) + 1) : FwCreateSmfTick(msgs)) /\ FwFrame

SpecForwardInit ==
    FwInit /\ TickParked /\ LockParked /\ AppParked /\ VoiceParked /\ BpmParked /\ AnalyzeParked /\ EditParked /\ EstParked /\ ExpParked /\ AsoParked /\ PvParked /\ DurParked /\ CbParked

SpecForward == SpecForwardInit /\ [][FwNext]_vars

PvFrame == UNCHANGED <<tickVars, lockVars, appVars, voiceVars, bpmVars, analyzeVars, editVars, estVars, expVars, asoVars, fwVars, durVars, cbVars>>

PvNext ==
    \/ (\E param \in PreviewParameters : PvParameterEdited(param)) /\ PvFrame
    \/ (PreviewMidiSoundBegin) /\ PvFrame
    \/ (PreviewMidiSoundEnd) /\ PvFrame

SpecPreviewInit ==
    PvInit /\ TickParked /\ LockParked /\ AppParked /\ VoiceParked /\ BpmParked /\ AnalyzeParked /\ EditParked /\ EstParked /\ ExpParked /\ AsoParked /\ FwParked /\ DurParked /\ CbParked

SpecPreview == SpecPreviewInit /\ [][PvNext]_vars

DurFrame == UNCHANGED <<tickVars, lockVars, appVars, voiceVars, bpmVars, analyzeVars, editVars, estVars, expVars, asoVars, fwVars, pvVars, cbVars>>

DurNext ==
    \/ (\E duration \in HeaderDurations : DurFileOpened(duration)) /\ DurFrame
    \/ (\E msec \in DurationInputs : DurMIDIOutputDurationChanged(msec)) /\ DurFrame
    \/ (DurReceivedSRNReanalyzeRequest) /\ DurFrame
    \/ (DurReceivedBpmAnalyzeRequest) /\ DurFrame
    \/ (\E factor \in FactorInputs : DurMIDIOutputSPC700ClockUpFactorChanged(factor)) /\ DurFrame
    \/ (DurSaveSMF) /\ DurFrame

SpecDurationInit ==
    DurInit /\ TickParked /\ LockParked /\ AppParked /\ VoiceParked /\ BpmParked /\ AnalyzeParked /\ EditParked /\ EstParked /\ ExpParked /\ AsoParked /\ FwParked /\ PvParked /\ CbParked

SpecDuration == SpecDurationInit /\ [][DurNext]_vars

CbFrame == UNCHANGED <<tickVars, lockVars, appVars, voiceVars, bpmVars, analyzeVars, editVars, estVars, expVars, asoVars, fwVars, pvVars, durVars>>

CbNext ==
    \/ (CbBegin) /\ CbFrame
    \/ (\E cycle \in StepCycles : CbStep(cycle)) /\ CbFrame
    \/ (\E frames \in 0..ChannelFrames : CbReturn(frames)) /\ CbFrame

SpecCallbackInit ==
    CbInit /\ TickParked /\ LockParked /\ AppParked /\ VoiceParked /\ BpmParked /\ AnalyzeParked /\ EditParked /\ EstParked /\ ExpParked /\ AsoParked /\ FwParked /\ PvParked /\ DurParked

SpecCallback == SpecCallbackInit /\ [][CbNext]_vars

\* ------------------------------------------------------------------------
\* Claims
\* ------------------------------------------------------------------------

\* an instance whose ticks are floor(cycles / 16)
TicksMatchCycles(spc) == spc.ticks = spc.cycles \div CLOCK_TICK_CYCLE_64KHZ

\* the loop in progress is between two iterations (for create_smf: not inside
\* its inner while loop) and runs at clock-up factor 1
AtLoopIteration ==
    /\ loop_mode \in {"analyze", "bpm", "smf"}
    /\ loop_mode = "smf" => (smf_pc = "tick" /\ spc_clockup_factor = 1)

\* C1: after every loop iteration of the analysis loop, the tempo loop, the
\* playback callback and the SMF export loop (clock-up factor 1) the number of
\* clock_tick_64k_hz() calls on the instance equals floor(total cycles / 16),
\* over the whole life of the instance, pause and resume included.
C1_TickAccounting ==
    /\ AtLoopIteration => TicksMatchCycles(work_spc)
    /\ TicksMatchCycles(live_spc)

\* the part of C1 that holds: the loops that own their instance
C1_WorkLoopsAccount == AtLoopIteration => TicksMatchCycles(work_spc)

\* thread t is blocked in lock() on a Mutex that thread u holds
WaitsFor(t, u) ==
    /\ thread_prog[t] # <<>>
    /\ Head(thread_prog[t]).op = "lock"
    /\ lock_holder[Head(thread_prog[t]).lock] = u

\* C5: under every interleaving of the audio callback with a UI handler that
\* takes the same locks, no state is reachable in which the audio thread and
\* the UI thread each wait for a lock the other holds.
C5_NoLockCycle == ~(WaitsFor("audio", "ui") /\ WaitsFor("ui", "audio"))

NoteOns(sink) == Count(sink, "NoteOn")
NoteOffs(sink) == Count(sink, "NoteOff")

\* a stream in which note-on and note-off alternate, a note-on first: no
\* note-on while the voice sounds, no note-off while it is idle
Alternates(sink) ==
    \A i \in 1..Len(sink) : sink[i] = (IF i % 2 = 1 THEN "NoteOn" ELSE "NoteOff")

\* C2 as stated: once every key event of the script has been ticked, the
\* sink holds one note-on per key-on written and one note-off per key-off
\* written, and they alternate.
C2_NotePerKeyWrite ==
    midi_spc.key = "none" =>
        /\ NoteOns(midi_sink) = Count(key_script, "kon")
        /\ NoteOffs(midi_sink) = Count(key_script, "kof")
        /\ Alternates(midi_sink)

\* C2 amended: the sink holds one note-on per key-on that found the voice
\* Idle and un-muted and one note-off per time the voice left Sounding; the
\* two alternate, and a note is open at the sink exactly while the voice is
\* Sounding.
C2_NotePerTransition ==
    /\ NoteOns(midi_sink) = keyons_taken
    /\ NoteOffs(midi_sink) = voice_ends
    /\ Alternates(midi_sink)
    /\ (midi_spc.voice = "Sounding") <=> (Len(midi_sink) % 2 = 1)

\* a script with a key-on that found the voice Sounding, a completed note
\* and a second note at the sink
C2_Witness ==
    /\ key_script = <<"kon", "kon", "kof", "kon">>
    /\ midi_sink = <<"NoteOn", "NoteOff", "NoteOn">>
    /\ midi_spc.key = "none"

\* the mute of the voice's source is set in the parameter map and every
\* parameter update sent has been applied
MuteInForce ==
    /\ VoiceSource \in DOMAIN source_parameter
    /\ source_parameter[VoiceSource].mute
    /\ pending_update = 0

C4_StopResetsPlayback ==
    last_msg.msg = "ReceivedPlayStopRequest" =>
        /\ stream = "none"
        /\ ~stream_is_playing
        /\ spc_file # NoFile =>
              pcm_spc = FreshSPC(spc_file) /\ midi_spc = FreshSPC(spc_file)
        /\ stream_played_samples = 0
        /\ midi_output_bytes = 0

\* C6: a start attempt that ends in Err leaves stream_is_playing false, stores
\* no stream (App.stream is what it was) and leaves both emulator instances
\* as it found them.
C6_FailedStartKeepsState ==
    (/\ last_msg.msg \in {"ReceivedPlayStartRequest", "ReceivedSRNPlayStartRequest"}
     /\ last_msg.result = "Err") =>
        /\ ~stream_is_playing
        /\ <<pcm_spc, midi_spc, stream>> = before_start

\* C7: tempo estimation never panics: on an empty onset signal, on a signal
\* too short for the largest search lag and on an empty candidate list it
\* returns a tempo.
C7_EstimateBpmNeverPanics == ~bpm_panicked

\* C8: two runs whose last message was an analysis of the same snapshot over
\* the same duration hold the same SourceInformation map and the same
\* SourceParameter map, both have completed it or both have aborted, and
\* having completed it they hold the same tempo, whatever either run held
\* before.
C8_AnalysisDeterministic ==
    (run[1].last.kind = "analyzed" /\ run[1].last = run[2].last) =>
        /\ run[1].source_infos = run[2].source_infos
        /\ run[1].source_parameter = run[2].source_parameter
        /\ run[1].panicked = run[2].panicked
        /\ ~run[1].panicked => run[1].beats_per_minute = run[2].beats_per_minute

\* both runs have analysed the same input to the end, from parameter maps
\* that differed, one of them holding a source the result does not have
C8_Witness ==
    /\ run[1].last.kind = "analyzed" /\ run[1].last = run[2].last
    /\ ~run[1].panicked /\ ~run[2].panicked
    /\ DOMAIN run[1].source_infos # {}
    /\ run[1].prior # run[2].prior
    /\ \E k \in DOMAIN run[2].prior : k \notin DOMAIN run[2].source_parameter

\* C9: after an analysis, every key-on that fell into the window has its
\* source number recorded with the address (DIR << 8) + 4 * source_number.
C9_DirectoryAddress ==
    \A r \in Runs :
        run[r].last.kind = "analyzed" =>
            LET snap == Snapshots[run[r].last.file]
            IN  \A i \in 1..Len(snap.keyons) :
                    snap.keyons[i].at < run[r].last.duration =>
                        /\ snap.keyons[i].srcn \in DOMAIN run[r].start_address_map
                        /\ run[r].start_address_map[snap.keyons[i].srcn]
                               = snap.dir * 256 + 4 * snap.keyons[i].srcn

\* C10: after an analysis, every discovered source has its SourceInformation
\* stored, with loop_start_sample = ((loop - start) * 16) / 9 and
\* end_address = start + (signal.len() * 9) / 16.
C10_LoopAndEndAddress ==
    \A r \in Runs :
        run[r].last.kind = "analyzed" =>
            LET snap == Snapshots[run[r].last.file]
            IN  \A srn \in DOMAIN run[r].start_address_map :
                    /\ srn \in DOMAIN run[r].source_infos
                    /\ run[r].source_infos[srn].loop_start_sample
                           = [wrapped |-> FALSE,
                              value |-> ((snap.loop - snap.start) * 16) \div 9]
                    /\ run[r].source_infos[srn].end_address
                           = snap.start + (snap.signal_len * 9) \div 16

\* C11: every SourceInformation stored in the shared map satisfies
\* loop_start_sample <= signal.len().
C11_LoopStartWithinSignal ==
    \A r \in Runs :
        \A srn \in DOMAIN run[r].source_infos :
            /\ ~run[r].source_infos[srn].loop_start_sample.wrapped
            /\ run[r].source_infos[srn].loop_start_sample.value
                   <= run[r].source_infos[srn].signal_len

\* the field of SourceParameter each edit message names
EditedField ==
    ("SRNMuteFlagToggled" :> "mute") @@ ("ProgramSelected" :> "program")
    @@ ("NoteOnVelocityChanged" :> "noteon_velocity")
    @@ ("PitchBendWidthChanged" :> "pitch_bend_width")
    @@ ("EnablePitchBendFlagToggled" :> "enable_pitch_bend")
    @@ ("AutoPanFlagToggled" :> "auto_pan") @@ ("FixedPanChanged" :> "fixed_pan")
    @@ ("AutoVolumeFlagToggled" :> "auto_volume")
    @@ ("FixedVolumeChanged" :> "fixed_volume")
    @@ ("EnvelopeAsExpressionFlagToggled" :> "envelope_as_expression")
    @@ ("EchoAsEffect1FlagToggled" :> "echo_as_effect1")

\* C12: after an edit message for a source of the map, the named field of
\* that source holds the given value, and every other field of that record
\* and every record of another source is as the message found it.
C12_EditSetsNamedField ==
    (edit_last.msg \in DOMAIN EditedField /\ edit_last.srn_no \in DOMAIN edit_last.params) =>
        /\ DOMAIN edit_params = DOMAIN edit_last.params
        /\ \A k \in DOMAIN edit_params :
               \A fld \in DOMAIN edit_params[k] :
                   IF k = edit_last.srn_no /\ fld = EditedField[edit_last.msg]
                   THEN edit_params[k][fld] = edit_last.value
                   ELSE edit_params[k][fld] = edit_last.params[k][fld]

\* the pan of source 0 has been set to a new value after the record of
\* source 1 had been edited
C12_Witness ==
    /\ edit_last.msg = "FixedPanChanged" /\ edit_last.srn_no = 0
    /\ edit_last.params[0].fixed_pan # edit_last.value
    /\ edit_params[0].fixed_pan = edit_last.value
    /\ edit_params[1] # AnalyzedParameter

ConfigField ==
    ("MIDIOutputBpmChanged" :> "beats_per_minute")
    @@ ("MIDIOutputTicksPerQuarterChanged" :> "ticks_per_quarter")
    @@ ("MIDIOutputUpdatePeriodChanged" :> "playback_parameter_update_period")
    @@ ("MIDIOutputDurationChanged" :> "output_duration_msec")

\* C14: after MIDIOutputTicksPerQuarterChanged, MIDIOutputUpdatePeriodChanged
\* or MIDIOutputDurationChanged the field holds the given value, after
\* MIDIOutputBpmChanged the tempo is a multiple of 0.125 no other multiple is
\* nearer to the given tempo than, and every other field of the
\* configuration is as the message found it.
C14_ConfigureStoresValue ==
    edit_last.msg \in DOMAIN ConfigField =>
        \A fld \in DOMAIN edit_config :
            IF fld # ConfigField[edit_last.msg]
            THEN edit_config[fld] = edit_last.config[fld]
            ELSE IF fld = "beats_per_minute"
            THEN 4 * edit_config[fld] - edit_last.value \in -2..2
            ELSE edit_config[fld] = edit_last.value

\* the largest duration has been stored after the largest tick resolution
C14_Witness ==
    /\ edit_last.msg = "MIDIOutputDurationChanged"
    /\ edit_last.value = <<65535, 65535, 65535, 65535>>
    /\ edit_config.output_duration_msec = <<65535, 65535, 65535, 65535>>
    /\ edit_config.ticks_per_quarter = 65535

\* C15: after FileOpened with an SPC file that parses, whatever the state
\* before, spc_file holds the snapshot, both emulator instances exist and are
\* fresh constructions from it, and both counters are 0.
C15_FileOpenedResets ==
    last_msg.msg = "FileOpened" =>
        /\ spc_file # NoFile
        /\ pcm_spc = FreshSPC(spc_file)
        /\ midi_spc = FreshSPC(spc_file)
        /\ stream_played_samples = 0
        /\ midi_output_bytes = 0

\* C16: on a power spectrum with at least one bin (flat, all zero, of one or
\* two bins, or any other) center_note_estimation does not panic and returns
\* a value in [0,127].
C16_CenterNoteInRange ==
    (est_note.done /\ Len(est_info.power_spectrum) > 0) =>
        /\ ~est_note.panic
        /\ est_note.note.kind = "finite"
        /\ est_note.note.db \in 0..127

\* an estimate above 127 has been clamped: the only peak of the spectrum is
\* its last bin
C16_Witness ==
    /\ est_note.done /\ ~est_note.panic
    /\ Len(est_info.power_spectrum) = ProbeLen
    /\ est_info.power_spectrum[ProbeLen].kind = "positive"
    /\ est_note.note = Finite(127)

\* a flat spectrum of two bins has been estimated as note 0
C16_WitnessFlat ==
    /\ est_note.done /\ ~est_note.panic
    /\ Len(est_info.power_spectrum) = 2
    /\ est_info.power_spectrum[1] = est_info.power_spectrum[2]
    /\ est_note.note = Finite(0)

C18_SmfTiming ==
    LET events == exp_smf.events
        SumTo(i) == LET sum[k \in 0..i] == IF k = 0 THEN 0 ELSE sum[k - 1] + events[k].vtime
                    IN  sum[i]
    IN  exp_state \in {"run", "done"} =>
            /\ exp_smf.division = exp_config.ticks_per_quarter
            /\ events[1].kind = "tempo" /\ events[1].vtime = 0
            /\ events[1].data = (8 * 60000000) \div exp_config.bpm8
            /\ \A i \in 2..Len(events) :
                   /\ events[i].kind = "midi"
                   /\ events[i].vtime >= 0
                   /\ (events[i - 1].at = events[i].at) => events[i].vtime = 0
                   /\ SumTo(i) = (events[i].at * TicksPerMinutesExact8(exp_config))
                                     \div (8 * TicksPerMinute64kHz)

\* C19: when a MIDI output connection exists, every call of stream_play_stop
\* and every activation of the global MIDI mute sends exactly one
\* all-sound-off message to each of the channels 0..15, and after a stop no
\* playback message follows them.
C19_AllSoundOffOnStopAndMute ==
    (aso_last.kind \in {"stop", "mute_on"} /\ aso_conn) =>
        LET sent == SubSeq(aso_sink, aso_last.from + 1, Len(aso_sink))
        IN  /\ \A ch \in 0..15 :
                   Cardinality({i \in 1..Len(sent) : sent[i] = AllSoundOff(ch)}) = 1
            /\ aso_last.kind = "stop" =>
                   \A i \in 1..Len(sent) : sent[i].kind = "all_sound_off"

\* C20: once every ReceivedSourceParameterUpdate on its way has been handled,
\* the virtual registers of the live MIDI instance hold what the current
\* SourceParameter map and update period translate to: every message that
\* changes the map or the period sends that message.
C20_RegistersReflectParameters ==
    edit_queue = 0 =>
        /\ edit_regs.period = edit_config.playback_parameter_update_period
        /\ \A k \in DOMAIN edit_params :
               /\ k \in DOMAIN edit_regs.srn
               /\ edit_regs.srn[k] = SourceRegisters(edit_params[k])

\* C21: the UI thread never sleeps while it holds the Mutex of pcm_spc, of
\* midi_spc or of midi_out_conn, so the audio callback never waits on a lock
\* for the length of a UI-thread delay.
C21_NoLockHeldAcrossDelay ==
    ~(/\ thread_prog["ui"] # <<>>
      /\ Head(thread_prog["ui"]).op = "sleep"
      /\ \E l \in Locks : lock_holder[l] = "ui")

\* C22: a step of source analysis, of tempo estimation or of SMF export (a
\* step that changes the loop's mode, counters or working instance) leaves
\* the live instance, the playback stream and the callback's cycle counter as
\* they are: the loops run on an instance of their own.
C22_AnalysisLeavesLiveInstance ==
    [][<<loop_mode, cycle_count, tick64khz_count, loop_ticks, smf_pc, work_spc>>'
           # <<loop_mode, cycle_count, tick64khz_count, loop_ticks, smf_pc, work_spc>>
       => UNCHANGED <<live_spc, play_stream, play_cycle_count>>]_vars

\* tempo estimation, entered from the analysis loop, has ticked its own
\* instance while the App holds a live instance that playback has advanced
C22_Witness ==
    /\ loop_mode = "bpm"
    /\ work_spc.ticks > 0
    /\ live_spc.ticks > 0
    /\ live_spc # work_spc

\* C23: while the main playback stream runs, the instances its data callback
\* steps are the ones the App holds in pcm_spc and midi_spc.
C23_CallbackDrivesAppInstances == stream = "main" => closure_spc = AppInstances

\* C24: whenever the playing flag is set the App holds the stream that
\* plays, so the next play or stop request clears the flag.
C24_PlayingFlagHasStream == stream_is_playing => stream # "none"

\* C25: in every state in which a Tick can be delivered (the playing flag is
\* set, so the subscription holds the 10 ms timer) the audio stream
\* configuration that the Tick handler unwraps is present.
C25_TickFindsStreamConfig == stream_is_playing => stream_device

\* the channel mute registers of the two instances the data callback of the
\* main stream steps
DrivenMute ==
    IF closure_spc = AppInstances
    THEN <<pcm_spc.channel_mute, midi_spc.channel_mute>>
    ELSE <<closure_spc.pcm_mute, closure_spc.midi_mute>>

\* C26: while the main stream runs, the channel mute register of each
\* instance the callback steps is 0xFF when that path's global mute flag is
\* set and channel_mute_flags otherwise.
C26_MuteRegistersInForce ==
    stream = "main" =>
        DrivenMute = <<IF pcm_spc_mute THEN 255 ELSE channel_mute_flags,
                       IF midi_spc_mute THEN 255 ELSE channel_mute_flags>>

\* the messages that address one source's parameters
SourceEditMessages ==
    {"SRNMuteFlagToggled", "ProgramSelected", "CenterNoteIntChanged",
     "CenterNoteFractionChanged", "NoteOnVelocityChanged", "PitchBendWidthChanged",
     "EnablePitchBendFlagToggled", "AutoPanFlagToggled", "FixedPanChanged",
     "AutoVolumeFlagToggled", "FixedVolumeChanged", "EnvelopeAsExpressionFlagToggled",
     "EchoAsEffect1FlagToggled", "SRNCenterNoteOctaveUpClicked",
     "SRNCenterNoteOctaveDownClicked", "SRNNoteEstimationClicked"}

\* C27: the handling of an edit message whose source is not in the parameter
\* map changes neither the map nor the configuration nor the registers and
\* sends no message.
C27_AbsentSourceEditIsNoOp ==
    [][(/\ edit_count' = edit_count + 1
        /\ edit_last'.msg \in SourceEditMessages
        /\ edit_last'.srn_no \notin DOMAIN edit_params)
       => UNCHANGED <<edit_params, edit_config, edit_queue, edit_regs>>]_vars

\* the byte strings of a sequence of batches, batch after batch, message
\* after message
RECURSIVE InBatchOrder(_)
InBatchOrder(batches) ==
    IF batches = <<>> THEN <<>>
    ELSE [i \in 1..Len(Head(batches)) |->
             SubSeq(Head(batches)[i].data, 1, Head(batches)[i].length)]
         \o InBatchOrder(Tail(batches))

\* C28: the port has received, and the exported track holds, the messages of
\* the batches in batch order and the batches in tick order, each once and
\* cut to its length; between data callbacks the byte counter is the sum of
\* the lengths of the messages sent since the counter was last reset.
C28_MessagesForwardedInOrder ==
    /\ fw_port = InBatchOrder(fw_produced)
    /\ fw_track = InBatchOrder(fw_exported)
    /\ fw_local = NoCallback =>
           fw_counter = SumLen(SubSeq(fw_port, fw_reset_at + 1, Len(fw_port)))

\* what the k-th preview is to have sent: for a melodic program the program
\* change and the note-on on the preview channel, for a percussion program
\* the note-on on channel 9, then the one note-off for the same channel and
\* note
PreviewExpected(param) ==
    LET note == param.center_note \div 512
    IN  IF param.program < 128
        THEN <<<<192, param.program>>, <<144, note, param.noteon_velocity>>,
               <<128, note, 0>>>>
        ELSE <<<<144 + 9, param.program - 128, param.noteon_velocity>>,
               <<128 + 9, param.program - 128, 0>>>>

\* C29: every preview made with a connected port has sent the messages of
\* its program kind, taken from the source's record as it was when the
\* preview began, and a preview that has ended has sent exactly one note-off
\* after its note-on; nothing else is on the connection.
C29_PreviewNoteOnThenOff ==
    \A k \in 1..Len(pv_log) :
        LET e == pv_log[k]
            until == IF k < Len(pv_log) THEN pv_log[k + 1].at ELSE Len(pv_sink)
            sent == SubSeq(pv_sink, e.at + 1, until)
            expected == PreviewExpected(e.param)
        IN  IF ~e.conn THEN sent = <<>>
            ELSE IF k = Len(pv_log) /\ pv_frame # NoPreview
                 THEN sent = SubSeq(expected, 1, Len(expected) - 1)
                 ELSE sent = expected

\* a melodic and a percussion preview have both ended, the record edited in
\* between
C29_Witness ==
    /\ Len(pv_log) = 2
    /\ pv_frame = NoPreview
    /\ pv_conn
    /\ pv_log[1].param.program < 128
    /\ pv_log[2].param.program >= 128
    /\ Len(pv_sink) = 5

\* duration_sec * 64000 as a number of 512-tick units that needs no u32,
\* split at 2^23 units as Mul64000 splits it
ExactTicks512(sec) ==
    LET a == sec[1] * 125
        low == (a % 128) * 65536 + sec[2] * 125
    IN  <<a \div 128 + low \div 8388608, low % 8388608>>

\* C30: every analysis or tempo-estimation loop that has run ended, without
\* a panic, after exactly duration_sec * 64000 ticks, duration_sec being what
\* its caller passed.
C30_LoopRunsDurationTicks ==
    dur_loop # NoLoop =>
        /\ ~dur_loop.panic
        /\ <<0, dur_loop.ticks512>> = ExactTicks512(dur_loop.sec)

\* C31: every export that has run ended, without a panic, after exactly
\* 64 * output_duration_msec ticks, and the cycle count its inner loop ran
\* up to before each tick was 16 * spc_clockup_factor.
C31_ExportRunsDurationTicks ==
    dur_smf # NoSmf =>
        /\ ~dur_smf.panic
        /\ dur_smf.ticks = MulCarry(dur_smf.msec, 64, 0)
        /\ <<0>> \o dur_smf.spc_64k_hz_cycle = MulCarry(dur_smf.factor, 16, 0)

\* the frames the loop had to push when the callback began
CbDemand == IF cb_start > BufferFrames \div 2 THEN cb_start - BufferFrames \div 2 ELSE 0

C33_MapsRebuiltPerPass ==
    /\ [](\A r \in Runs :
            (run[r].last.kind = "analyzed" /\ ~run[r].panicked) =>
                /\ DOMAIN run[r].source_infos = DOMAIN run[r].start_address_map
                /\ DOMAIN run[r].source_parameter = DOMAIN run[r].start_address_map
                /\ \A k \in DOMAIN run[r].source_parameter :
                       run[r].source_parameter[k] = DefaultParameter)
    /\ [][\A r \in Runs :
             (run'[r] # run[r] /\ run'[r].last.kind # "analyzed") =>
                 run'[r].source_infos = run[r].source_infos]_vars

\* a run has analysed a snapshot with one source to the end while its maps
\* held a second source from an earlier analysis
C33_Witness ==
    \E r \in Runs :
        /\ run[r].last.kind = "analyzed" /\ ~run[r].panicked
        /\ DOMAIN run[r].source_infos = {0}
        /\ 1 \in DOMAIN run[r].prior

\* C34: the snapshot, the PCM instance and the MIDI instance are all present
\* or all absent, so App::apply_source_parameter, which unwraps the snapshot
\* whenever the MIDI instance exists, finds it.
C34_SnapshotAndInstancesTogether ==
    /\ (spc_file = NoFile) = (pcm_spc = NoSPC)
    /\ (spc_file = NoFile) = (midi_spc = NoSPC)

\* a file is loaded and playback has been stopped
C34_Witness ==
    /\ last_msg.msg = "ReceivedPlayStopRequest"
    /\ spc_file # NoFile
    /\ pcm_spc # NoSPC
    /\ midi_spc # NoSPC

\* C35: every source that has a SourceInformation has a SourceParameter.
C35_InfoHasParameter ==
    \A r \in Runs : DOMAIN run[r].source_infos \subseteq DOMAIN run[r].source_parameter

\* a snapshot with two sources was analysed, then a JSON file was loaded that
\* brought a record for a third
C35_Witness ==
    \E r \in Runs :
        /\ run[r].last.kind = "other"
        /\ DOMAIN run[r].source_infos = {0, 1}
        /\ DOMAIN run[r].source_parameter = {0, 1, 2}

C37_RegistersLossless ==
    [][edit_regs' # edit_regs =>
          \A k \in DOMAIN edit_params :
              LET p == edit_params[k]
                  r == edit_regs'.srn[k]
              IN  /\ r.center_note_high * 256 + r.center_note_low = p.center_note
                  /\ (r.volume >= 128) = p.auto_volume
                  /\ r.volume % 128 = p.fixed_volume
                  /\ (r.pan >= 128) = p.auto_pan
                  /\ r.pan % 128 = p.fixed_pan
                  /\ (r.pitchbend_sensitivity >= 128) = p.enable_pitch_bend
                  /\ r.pitchbend_sensitivity % 128 = p.pitch_bend_width]_vars

====
